---- MODULE Spec2Model ----
(***************************************************************************)
(* Benchmark harnesses of the Ibex repository:                             *)
(*   benchmarking/bench_quant.py   (ibex vs polars vs pandas, subprocesses)*)
(*   tools/bench_tf.py             (TimeFrame queries, ibex subprocess)    *)
(*   benchmarking/bench_python.py  (timer, in-process)                     *)
(*   examples/quant_pandas.py, quant_polars.py (benchmark loop)            *)
(*                                                                         *)
(* Time is counted in integer microseconds (1 tick = 1e-6 s), so that the  *)
(* 1e-6 s floor of bench_quant is 1 tick and the 1 ms floor of bench_tf is *)
(* 1000 ticks.  A float quotient is kept as an exact fraction              *)
(* [num, den]; avg_ms fractions are in milliseconds.                       *)
(*                                                                         *)
(* subprocess.run blocks: a harness action runs the code from the return   *)
(* of one subprocess.run up to the start of the next one (or to the exit   *)
(* of the tool).  In a "wait_*" position the child named by `child` runs.  *)
(***************************************************************************)
EXTENDS Integers, Sequences, FiniteSets, TLC

VARIABLES
    tool,       \* which script is running
    args,       \* parsed command line
    fs,         \* the files the tool probes with .exists() / shutil.which
    cost,       \* the machine: spawn overhead, per-operation cost, noise
    pc,         \* position of the main thread
    children,   \* number of live child processes
    child,      \* the child process being waited for (kind, script)
    spawnLog,   \* history: the kinds of the children spawned so far
    calls,      \* history: invocations of the in-process operation
    loc,        \* local variables of the running functions
    out,        \* lines printed on standard output (results only)
    err,        \* lines printed on standard error
    exit_code,  \* process exit status, NoExit while running
    firstFail,  \* history: the first failed invocation of an operation
    timed,      \* history: the last timed batch that succeeded (elapsed, executions)
    outfile,    \* the file at --out of bench_python
    profLog     \* history: the runs of profile_ibex_steps that succeeded

const == <<tool, args, fs, cost>>

vars == <<tool, args, fs, cost, pc, children, child, spawnLog, calls, loc,
          out, err, exit_code, firstFail, timed, outfile, profLog>>

-----------------------------------------------------------------------------
(* Bounds of the model *)

\* len(IBEX_QUANT_STEPS) is 12 in the source; the pipeline is cut to this
\* many steps
NumSteps == 2
\* values of --min-seconds, in ticks
QuantMinSeconds == {-2, 0, 3, 14}
\* spawn overhead and cost of one pipeline step / one query, in ticks
SpawnCosts == {0, 5}
StepCosts == {0, 1}
\* measurement noise added to a run, in ticks
NoiseValues == {0, 2}
\* values of --profile-runs and --profile-repeat
ProfileRuns == {0, 2}
ProfileRepeats == {0, 2}
\* len(TF_QUERIES) is 5 in the source; this many queries are run
NumQueries == 2
\* largest --warmup of bench_tf
MaxWarmup == 1
\* bench_tf: values of --min-seconds, spawn overhead (with gen_tf_data),
\* cost of one query and noise, in ticks
\* bench_python: largest --iters, number of queries of the suite
MaxIters == 2
NumPyQueries == 2
\* quant_pandas / quant_polars: cap on the iterations of the benchmark loop
MaxIterations == 15
\* rows in a results file
MaxRows == 2
TfMinSeconds == {-1000, 0, 9000}
TfSpawnCosts == {0, 3000}
TfOpCosts == {500, 2000}
TfNoiseValues == {0, 2000}

NoExit == -1
\* an environment without the two variables the harnesses set
NoVars == [POLARS_MAX_THREADS |-> "unset", IBEX_LIBRARY_PATH |-> "unset"]
NoChild == [fw |-> "none", role |-> "none", script |-> <<>>, env |-> NoVars]
NoFail == [role |-> "none", spawns |-> 0, calls |-> 0, results |-> 0, printed |-> 0,
           stdout |-> <<>>, stderr |-> <<>>]
NoFile == [exists |-> FALSE, header |-> <<>>, rows |-> <<>>]
NoTimed == [elapsed |-> 0, execs |-> 0]
NoStats == [iters |-> 0, total |-> 0, avg_ms |-> [num |-> 0, den |-> 1]]

-----------------------------------------------------------------------------
(* Arithmetic *)

Max(a, b) == IF a >= b THEN a ELSE b

MinOf(S) == CHOOSE r \in S : \A x \in S : r <= x

\* math.ceil(a / b) for b > 0
Ceil(a, b) == -((-a) \div b)

Frac(n, d) == [num |-> n, den |-> d]
FracSub(a, b) == [num |-> a.num * b.den - b.num * a.den, den |-> a.den * b.den]
FracLess(a, b) == a.num * b.den < b.num * a.den
FracEq(a, b) == a.num * b.den = b.num * a.den

\* faulty variant: the digits after the third cut off
ThousandthsTruncated(f) == (1000 * f.num) \div f.den

\* round(1000 * f) for f.den > 0, ties to even: the digits of f"{f:.3f}"
Thousandths(f) ==
    LET q == (1000 * f.num) \div f.den
        r == (1000 * f.num) % f.den
    IN  IF 2 * r < f.den THEN q
        ELSE IF 2 * r > f.den THEN q + 1
        ELSE IF q % 2 = 0 THEN q ELSE q + 1

-----------------------------------------------------------------------------
(* Text of the child's output *)

LowerChar(c) ==
    CASE c = "E" -> "e"
      [] c = "R" -> "r"
      [] c = "O" -> "o"
      [] OTHER -> c

\* str.lower()
Lower(s) == [i \in 1..Len(s) |-> LowerChar(s[i])]

\* pat in s
Contains(s, pat) ==
    \E i \in 0..(Len(s) - Len(pat)) :
        \A j \in 1..Len(pat) : s[i + j] = pat[j]

ErrorMarker == <<"e", "r", "r", "o", "r", ":">>


-----------------------------------------------------------------------------
(* The machine and the child processes *)

\* what an ibex child can return: exit code and captured output
IbexOutcomes ==
    { [returncode |-> 0, stdout |-> <<>>, stderr |-> <<>>],
      [returncode |-> 1, stdout |-> <<"o", "u", "t">>, stderr |-> <<"b", "a", "d">>],
      [returncode |-> 0, stdout |-> <<"E", "r", "r", "o", "r", ":">>, stderr |-> <<>>],
      [returncode |-> 0, stdout |-> <<>>, stderr |-> <<"x", "E", "R", "R", "O", "R", ":">>],
      [returncode |-> 0, stdout |-> <<"e", "r", "r", "o", "r">>, stderr |-> <<>>],
      [returncode |-> 0, stdout |-> <<"e", "r", "r">>, stderr |-> <<"o", "r", ":">>] }

\* the run failed: non-zero exit, or the engine printed an error marker
EngineFailed(proc) ==
    \/ proc.returncode # 0
    \/ Contains(Lower(proc.stdout), ErrorMarker)
    \/ Contains(Lower(proc.stderr), ErrorMarker)

\* the benchmark line a quant_pandas / quant_polars child prints
BenchLine(label) ==
    [label |-> label, iters |-> 3, total |-> 9, avg_ms |-> [num |-> 9, den |-> 3000]]

\* what a python child can return
PyOutcomes(label) ==
    { [returncode |-> 0, stdout |-> <<BenchLine(label)>>, stderr |-> <<"w">>],
      [returncode |-> 0, stdout |-> <<>>, stderr |-> <<>>],
      [returncode |-> 1, stdout |-> <<>>, stderr |-> <<"b", "a", "d">>],
      [returncode |-> 1, stdout |-> <<BenchLine("x")>>, stderr |-> <<>>] }

Noise == cost.noise

\* number of operations (pipeline steps, queries) a script executes
OpCount(script) == Cardinality({i \in DOMAIN script : script[i].t = "op"})

\* wall-clock time of a child that loads `script`, with noise n
Elapsed(script, n) == cost.spawn + OpCount(script) * cost.op + n

-----------------------------------------------------------------------------
(* Steps shared by the harnesses *)

\* faulty variant: the child is started and not waited for
subprocess_run_no_wait(n) == n

\* subprocess.run returns only when the child has exited: n live children
\* before the return, one less after it
subprocess_run(n) == n - 1

\* the environments the harness is started in
Environments ==
    {NoVars, [POLARS_MAX_THREADS |-> "8", IBEX_LIBRARY_PATH |-> "/opt/ibex"]}

\* faulty variant: the variable set in os.environ itself
set_in_place(environ, name, value) ==
    [harness |-> [environ EXCEPT ![name] = value],
     child |-> [environ EXCEPT ![name] = value]]

\* env = os.environ.copy(); env[name] = value: the environment of the
\* harness after it, and the one handed to the child
set_in_copy(environ, name, value) ==
    [harness |-> environ, child |-> [environ EXCEPT ![name] = value]]

\* the env argument of subprocess.run: run_ibex_script and run_ibex set
\* IBEX_LIBRARY_PATH, the single-thread polars run POLARS_MAX_THREADS, and
\* run_cmd without env (None) lets the child inherit os.environ
child_env(fw, environ) ==
    IF fw = "ibex" THEN set_in_copy(environ, "IBEX_LIBRARY_PATH", "plugin_dir")
    ELSE IF fw = "polars-st" THEN set_in_copy(environ, "POLARS_MAX_THREADS", "1")
    ELSE [harness |-> environ, child |-> environ]

\* the harness calls subprocess.run: next position p, locals l
Continue(n, fw, role, script, p, l, o, e) ==
    LET ev == child_env(fw, l.environ)
    IN  /\ children' = n + 1
        /\ child' = [fw |-> fw, role |-> role, script |-> script, env |-> ev.child]
        /\ spawnLog' = Append(spawnLog, [fw |-> fw, role |-> role, env |-> ev.child])
        /\ pc' = p
        /\ exit_code' = NoExit
        /\ loc' = [l EXCEPT !.environ = ev.harness]
    /\ out' = o
    /\ err' = e

\* the tool's process ends with status code
Terminate(n, code, l, o, e) ==
    /\ children' = n
    /\ child' = NoChild
    /\ spawnLog' = spawnLog
    /\ pc' = "exit"
    /\ exit_code' = code
    /\ loc' = l
    /\ out' = o
    /\ err' = e

\* number of result lines printed
NumResults(o) == Cardinality({i \in DOMAIN o : o[i].t = "result"})

ErrLine(t, so, se) == [t |-> t, stdout |-> so, stderr |-> se]

\* history: remember the first engine run that failed
NoteFail(proc) ==
    IF firstFail = NoFail /\ EngineFailed(proc)
    THEN [role |-> child.role, spawns |-> Len(spawnLog), calls |-> calls,
          results |-> NumResults(out), printed |-> Len(out),
          stdout |-> proc.stdout, stderr |-> proc.stderr]
    ELSE firstFail

-----------------------------------------------------------------------------
(* benchmarking/bench_quant.py *)

Dirs == {"build-release", "build", "custom"}

\* faulty variant: the candidates tried in the other order
QuantCandidatesSwapped == <<"build", "build-release">>

\* the candidates of detect_build_dir, in the order it tries them
QuantCandidates == <<"build-release", "build">>

FirstWithBinary(cands) ==
    LET found == {i \in 1..Len(cands) : fs.bin[cands[i]]}
    IN  IF found = {} THEN "none"
        ELSE cands[CHOOSE i \in found : \A j \in found : i <= j]

\* "none" stands for the RuntimeError
detect_build_dir(requested) ==
    IF requested # "none" THEN requested ELSE FirstWithBinary(QuantCandidates)

IBEX_QUANT_STEPS == [i \in 1..NumSteps |-> [t |-> "op", i |-> i]]

QuantHeader == <<[t |-> "extern", i |-> 0], [t |-> "let_ohlcv", i |-> 0],
                 [t |-> "let_fund", i |-> 0]>>

\* faulty variant: the header lines repeated with every block
ibex_quant_script_text_header_in_block(steps, repeats) ==
    [k \in 1..(Max(repeats, 0) * (3 + Len(steps))) |->
        LET j == ((k - 1) % (3 + Len(steps))) + 1
        IN  IF j <= 3 THEN [t |-> IF j = 1 THEN "extern" ELSE IF j = 2 THEN "let_ohlcv"
                                  ELSE "let_fund", i |-> 0]
            ELSE steps[j - 3]]

\* the script: the three header lines, then the block of steps `repeats` times
ibex_quant_script_text(steps, repeats) ==
    QuantHeader \o
    [k \in 1..(Max(repeats, 0) * Len(steps)) |-> steps[((k - 1) % Len(steps)) + 1]]

\* the failure test bench_quant applies to every ibex run
quant_run_failed(proc) ==
    \/ proc.returncode # 0
    \/ Contains(Lower(proc.stdout), ErrorMarker)
    \/ Contains(Lower(proc.stderr), ErrorMarker)

\* faulty variant: the floor max(1, ...) forgotten
quant_repeats_unfloored(min_seconds, probe_total) ==
    Ceil(min_seconds, Max(probe_total, 1))

\* repeats = max(1, int(math.ceil(min_seconds / max(probe_total, 1e-6))))
quant_repeats(min_seconds, probe_total) ==
    Max(1, Ceil(min_seconds, Max(probe_total, 1)))

\* faulty variant: the repeat count replaced by the factor
quant_scale_up_replaced(repeats, min_seconds, total) ==
    Max(Ceil(min_seconds, total), 1)

\* repeats *= max(int(math.ceil(min_seconds / total)), 1)
quant_scale_up(repeats, min_seconds, total) ==
    repeats * Max(Ceil(min_seconds, total), 1)

\* the second-order correction is taken
quant_needs_scale_up(min_seconds, total) == total < min_seconds /\ total > 0

\* faulty variant: the total of the batch reported as the average
quant_avg_ms_undivided(total, repeats) == Frac(total, 1000)

\* avg_ms = 1000.0 * total / repeats
quant_avg_ms(total, repeats) == Frac(total, 1000 * repeats)

\* parse_py_benchmark: the first line of the label; <<>> stands for the
\* ValueError raised when there is none
parse_py_benchmark(output, label) ==
    LET hits == {i \in DOMAIN output : output[i].label = label}
    IN  IF hits = {} THEN <<>>
        ELSE LET ln == output[CHOOSE i \in hits : \A j \in hits : i <= j]
             IN  <<[iters |-> ln.iters, total |-> ln.total, avg_ms |-> ln.avg_ms]>>

LocInit ==
    [build_dir |-> "none", polars_results |-> <<>>, pandas_stats |-> NoStats,
     ibex_stats |-> NoStats, repeats |-> 0, total |-> 0,
     step_count |-> 0, run |-> 0, rows |-> <<>>, cumulative_prev |-> Frac(0, 1),
     baseline |-> 0, q |-> 0, w |-> 0, i |-> 0, clock |-> 0, t0 |-> 0,
     result |-> 0, all_rows |-> <<>>, data |-> <<>>, fi |-> 0, ri |-> 0, present |-> <<>>,
     ratio_queries |-> <<>>, environ |-> NoVars]

\* run_ibex_script: the binary is looked up, then the child is started.
\* Both callers run under main's `except RuntimeError`: print, return 1.
run_ibex_script(n, role, script, p, l, o, e) ==
    IF ~fs.bin[l.build_dir]
    THEN Terminate(n, 1, l, o, Append(e, ErrLine("ibex binary not found", <<>>, <<>>)))
    ELSE Continue(n, "ibex", role, script, p, l, o, e)

\* print(proc.stderr or proc.stdout, file=sys.stderr)
ChildErr(proc) ==
    IF proc.stderr # <<>> THEN ErrLine("child", <<>>, proc.stderr)
    ELSE ErrLine("child", proc.stdout, <<>>)

\* main, lines 385-394: the pandas child, then bench_ibex_compute_only
SpawnPandas(n, l, o, e) == Continue(n, "pandas", "run", <<>>, "wait_pandas", l, o, e)

\* main, lines 376-379
AfterPolarsMt(n, l, o, e) ==
    IF args.polars_modes \in {"both", "single"}
    THEN Continue(n, "polars-st", "run", <<>>, "wait_polars_st", l, o, e)
    ELSE SpawnPandas(n, l, o, e)

\* main up to the first child: detect_build_dir, ensure_uv,
\* ensure_scaled_ohlcv; an exception there is uncaught (exit status 1)
QuantStart ==
    /\ tool = "bench_quant" /\ pc = "start"
    /\ LET bd == detect_build_dir(args.build_dir)
           l == [loc EXCEPT !.build_dir = bd]
       IN  IF bd = "none"
           THEN Terminate(0, 1, loc, out, Append(err, ErrLine("could not find ibex binary", <<>>, <<>>)))
           ELSE IF ~fs.uv
           THEN Terminate(0, 1, l, out, Append(err, ErrLine("uv not found in PATH", <<>>, <<>>)))
           ELSE IF args.scale < 1
           THEN Terminate(0, 1, l, out, Append(err, ErrLine("--scale must be >= 1", <<>>, <<>>)))
           ELSE IF args.polars_modes \in {"both", "multi"}
           THEN Continue(0, "polars-mt", "run", <<>>, "wait_polars_mt", l, out, err)
           ELSE AfterPolarsMt(0, l, out, err)
    /\ UNCHANGED <<const, profLog, outfile, calls, firstFail, timed>>

QuantPolarsMtReturn ==
    /\ tool = "bench_quant" /\ pc = "wait_polars_mt"
    /\ \E proc \in PyOutcomes("polars") :
        LET n == subprocess_run(children)
            st == parse_py_benchmark(proc.stdout, "polars")
        IN  IF proc.returncode # 0
            THEN Terminate(n, 1, loc, out, Append(err, ChildErr(proc)))
            ELSE IF st = <<>>
            THEN Terminate(n, 1, loc, out, Append(err, ErrLine("ValueError", proc.stdout, <<>>)))
            ELSE AfterPolarsMt(n, [loc EXCEPT !.polars_results =
                                     Append(@, [name |-> "polars-mt", stats |-> st[1]])],
                               out, err)
    /\ UNCHANGED <<const, profLog, outfile, calls, firstFail, timed>>

QuantPolarsStReturn ==
    /\ tool = "bench_quant" /\ pc = "wait_polars_st"
    /\ \E proc \in PyOutcomes("polars") :
        LET n == subprocess_run(children)
            st == parse_py_benchmark(proc.stdout, "polars")
        IN  IF proc.returncode # 0
            THEN Terminate(n, 1, loc, out, Append(err, ChildErr(proc)))
            ELSE IF st = <<>>
            THEN Terminate(n, 1, loc, out, Append(err, ErrLine("ValueError", proc.stdout, <<>>)))
            ELSE SpawnPandas(n, [loc EXCEPT !.polars_results =
                                   Append(@, [name |-> "polars-st", stats |-> st[1]])],
                             out, err)
    /\ UNCHANGED <<const, profLog, outfile, calls, firstFail, timed>>

\* the pandas child returns; bench_ibex_compute_only writes the probe
\* script (repeats=1) and starts the first warm-up
QuantPandasReturn ==
    /\ tool = "bench_quant" /\ pc = "wait_pandas"
    /\ \E proc \in PyOutcomes("pandas") :
        LET n == subprocess_run(children)
            st == parse_py_benchmark(proc.stdout, "pandas")
        IN  IF proc.returncode # 0
            THEN Terminate(n, 1, loc, out, Append(err, ChildErr(proc)))
            ELSE IF st = <<>>
            THEN Terminate(n, 1, loc, out, Append(err, ErrLine("ValueError", proc.stdout, <<>>)))
            ELSE run_ibex_script(n, "warm", ibex_quant_script_text(IBEX_QUANT_STEPS, 1),
                                 "wait_warm", [loc EXCEPT !.pandas_stats = st[1]], out, err)
    /\ UNCHANGED <<const, profLog, outfile, calls, firstFail, timed>>

\* number of times a script executes the block `steps`
Execs(script, steps) == OpCount(script) \div Len(steps)

ResultLine(name, st) ==
    [t |-> "result", name |-> name, iters |-> st.iters, total |-> st.total,
     avg_ms |-> st.avg_ms]

\* faulty variant: the steps from step_count on instead of the first ones
profile_script_remaining(step_count) ==
    ibex_quant_script_text(SubSeq(IBEX_QUANT_STEPS, step_count, NumSteps),
                           Max(args.profile_repeat, 1))

\* the script of profile step step_count: its first step_count steps
profile_script(step_count) ==
    ibex_quant_script_text(SubSeq(IBEX_QUANT_STEPS, 1, step_count),
                           Max(args.profile_repeat, 1))

\* faulty variant: the inner repeat count left out of the divisor
profile_cumulative_ms_per_run(total) == Frac(total, 1000 * Max(args.profile_runs, 1))

\* cumulative_ms = 1000.0 * total / (max(runs, 1) * repeat)
profile_cumulative_ms(total) ==
    Frac(total, 1000 * Max(args.profile_runs, 1) * Max(args.profile_repeat, 1))

\* main, lines 398-446: bench_ibex_compute_only has returned st; the table
\* is printed (ibex, polars-mt, polars-st, pandas), then the step profile
\* starts if it was asked for
QuantReport(n, st, o, e) ==
    LET l == [loc EXCEPT !.ibex_stats = st, !.repeats = 0, !.total = 0]
        table == <<ResultLine("ibex", st)>> \o
                 [i \in 1..Len(l.polars_results) |->
                     ResultLine(l.polars_results[i].name, l.polars_results[i].stats)] \o
                 <<ResultLine("pandas", l.pandas_stats)>>
    IN  IF args.profile_steps
        THEN run_ibex_script(n, "profile", profile_script(1), "wait_profile",
                             [l EXCEPT !.step_count = 1, !.run = 0, !.total = 0,
                                       !.rows = <<>>, !.cumulative_prev = Frac(0, 1)],
                             o \o table, e)
        ELSE Terminate(n, 0, l, o \o table, e)

\* faulty variant: the rows measured before the failure are still printed
IbexAbortPartialRows(n, proc) ==
    Terminate(n, 1, loc, out \o loc.rows,
              Append(err, ErrLine("RuntimeError", proc.stdout, proc.stderr)))

\* raise RuntimeError(f"ibex failed ...:\n{proc.stdout}\n{proc.stderr}"),
\* caught by main: printed on stderr, return 1
IbexAbort(n, proc) ==
    Terminate(n, 1, loc, out, Append(err, ErrLine("RuntimeError", proc.stdout, proc.stderr)))

\* bench_ibex_compute_only, lines 222-226: first warm-up, then the probe
QuantWarmReturn ==
    /\ tool = "bench_quant" /\ pc = "wait_warm"
    /\ \E proc \in IbexOutcomes :
        LET n == subprocess_run(children)
        IN  /\ IF quant_run_failed(proc)
               THEN IbexAbort(n, proc)
               ELSE run_ibex_script(n, "probe", child.script, "wait_probe", loc, out, err)
            /\ firstFail' = NoteFail(proc)
    /\ UNCHANGED <<const, profLog, outfile, calls, timed>>

\* lines 226-234: the probe gives the repeat count; warm-up of the bench script
QuantProbeReturn ==
    /\ tool = "bench_quant" /\ pc = "wait_probe"
    /\ \E proc \in IbexOutcomes, nz \in Noise :
        LET n == subprocess_run(children)
            probe_total == Elapsed(child.script, nz)
            repeats == quant_repeats(args.min_seconds, probe_total)
        IN  /\ IF quant_run_failed(proc)
               THEN IbexAbort(n, proc)
               ELSE run_ibex_script(n, "warm2",
                                    ibex_quant_script_text(IBEX_QUANT_STEPS, repeats),
                                    "wait_warm2", [loc EXCEPT !.repeats = repeats],
                                    out, err)
            /\ firstFail' = NoteFail(proc)
    /\ UNCHANGED <<const, profLog, outfile, calls, timed>>

\* lines 234-238
QuantWarm2Return ==
    /\ tool = "bench_quant" /\ pc = "wait_warm2"
    /\ \E proc \in IbexOutcomes :
        LET n == subprocess_run(children)
        IN  /\ IF quant_run_failed(proc)
               THEN IbexAbort(n, proc)
               ELSE run_ibex_script(n, "bench", child.script, "wait_bench", loc, out, err)
            /\ firstFail' = NoteFail(proc)
    /\ UNCHANGED <<const, profLog, outfile, calls, timed>>

\* lines 238-247 and 254-255: the measured run; either the second-order
\* correction starts (warm-up of the larger script) or the function returns
QuantBenchReturn ==
    /\ tool = "bench_quant" /\ pc = "wait_bench"
    /\ \E proc \in IbexOutcomes, nz \in Noise :
        LET n == subprocess_run(children)
            total == Elapsed(child.script, nz)
            repeats == quant_scale_up(loc.repeats, args.min_seconds, total)
        IN  /\ IF quant_run_failed(proc)
               THEN IbexAbort(n, proc)
               ELSE IF quant_needs_scale_up(args.min_seconds, total)
               THEN run_ibex_script(n, "warm3",
                                    ibex_quant_script_text(IBEX_QUANT_STEPS, repeats),
                                    "wait_warm3",
                                    [loc EXCEPT !.repeats = repeats, !.total = total],
                                    out, err)
               ELSE QuantReport(n, [iters |-> loc.repeats, total |-> total,
                                    avg_ms |-> quant_avg_ms(total, loc.repeats)],
                                out, err)
            /\ firstFail' = NoteFail(proc)
            /\ timed' = IF quant_run_failed(proc) THEN timed
                        ELSE [elapsed |-> total,
                              execs |-> Execs(child.script, IBEX_QUANT_STEPS)]
    /\ UNCHANGED <<const, profLog, outfile, calls>>

\* lines 247-250
QuantWarm3Return ==
    /\ tool = "bench_quant" /\ pc = "wait_warm3"
    /\ \E proc \in IbexOutcomes :
        LET n == subprocess_run(children)
        IN  /\ IF quant_run_failed(proc)
               THEN IbexAbort(n, proc)
               ELSE run_ibex_script(n, "bench2", child.script, "wait_bench2", loc, out, err)
            /\ firstFail' = NoteFail(proc)
    /\ UNCHANGED <<const, profLog, outfile, calls, timed>>

\* lines 250-255: the second measured run; the function returns
QuantBench2Return ==
    /\ tool = "bench_quant" /\ pc = "wait_bench2"
    /\ \E proc \in IbexOutcomes, nz \in Noise :
        LET n == subprocess_run(children)
            total == Elapsed(child.script, nz)
        IN  /\ IF quant_run_failed(proc)
               THEN IbexAbort(n, proc)
               ELSE QuantReport(n, [iters |-> loc.repeats, total |-> total,
                                    avg_ms |-> quant_avg_ms(total, loc.repeats)],
                                out, err)
            /\ firstFail' = NoteFail(proc)
            /\ timed' = IF quant_run_failed(proc) THEN timed
                        ELSE [elapsed |-> total,
                              execs |-> Execs(child.script, IBEX_QUANT_STEPS)]
    /\ UNCHANGED <<const, profLog, outfile, calls>>

ProfileRow(step_count, cumulative_ms, delta_ms) ==
    [t |-> "step", step_index |-> step_count, cumulative_ms |-> cumulative_ms,
     delta_ms |-> delta_ms]

\* history: a run of run_ibex_script on the script of step step_count
ProfileRun(step_count, script, elapsed) ==
    [step |-> step_count,
     opset |-> {script[i].i : i \in {j \in DOMAIN script : script[j].t = "op"}},
     ops |-> OpCount(script), elapsed |-> elapsed]

\* profile_ibex_steps, lines 271-289, and main, lines 437-446: one run of
\* the current step returns
QuantProfileReturn ==
    /\ tool = "bench_quant" /\ pc = "wait_profile"
    /\ \E proc \in IbexOutcomes, nz \in Noise :
        LET n == subprocess_run(children)
            elapsed == Elapsed(child.script, nz)
            total == loc.total + elapsed
            cumulative_ms == profile_cumulative_ms(total)
            delta_ms == FracSub(cumulative_ms, loc.cumulative_prev)
            rows == Append(loc.rows, ProfileRow(loc.step_count, cumulative_ms, delta_ms))
        IN  /\ IF quant_run_failed(proc)
               THEN IbexAbort(n, proc)
               ELSE IF loc.run + 1 < Max(args.profile_runs, 1)
               THEN run_ibex_script(n, "profile", child.script, "wait_profile",
                                    [loc EXCEPT !.run = @ + 1, !.total = total], out, err)
               ELSE IF loc.step_count < Len(IBEX_QUANT_STEPS)
               THEN run_ibex_script(n, "profile", profile_script(loc.step_count + 1),
                                    "wait_profile",
                                    [loc EXCEPT !.step_count = @ + 1, !.run = 0,
                                                !.total = 0, !.rows = rows,
                                                !.cumulative_prev = cumulative_ms],
                                    out, err)
               ELSE Terminate(n, 0, [loc EXCEPT !.rows = rows, !.total = total,
                                                !.cumulative_prev = cumulative_ms],
                              out \o rows, err)
            /\ firstFail' = NoteFail(proc)
            /\ profLog' = IF quant_run_failed(proc) THEN profLog
                          ELSE Append(profLog, ProfileRun(loc.step_count, child.script, elapsed))
    /\ UNCHANGED <<const, outfile, calls, timed>>

\* inputs that are never read are held at one value: the profile options
\* without --profile-steps, the candidate directories with --build-dir,
\* the requested directory without it
Relevant ==
    /\ ~args.profile_steps =>
          /\ args.profile_runs = MinOf(ProfileRuns)
          /\ args.profile_repeat = MinOf(ProfileRepeats)
    /\ args.build_dir # "none" => \A d \in Dirs \ {args.build_dir} : ~fs.bin[d]
    /\ args.build_dir = "none" => ~fs.bin["custom"]
    /\ fs.environ # NoVars =>
          /\ args.build_dir = "none" /\ args.scale = 1 /\ args.min_seconds = 3
          /\ fs.uv /\ fs.bin["build-release"] /\ ~fs.bin["build"]
          /\ args.polars_modes = "both" /\ ~args.profile_steps
          /\ cost.spawn = MinOf(SpawnCosts) /\ cost.op = 1 /\ cost.noise = {0}

\* the installation on which every measurement option is explored
DefaultLayout ==
    /\ args.build_dir = "none" /\ args.scale = 1
    /\ fs.uv /\ fs.plugin /\ fs.bin["build-release"] /\ ~fs.bin["build"]

\* the options with which every installation is explored
DefaultOptions ==
    /\ args.min_seconds = 3 /\ args.polars_modes = "both" /\ ~args.profile_steps
    /\ cost = [spawn |-> MinOf(SpawnCosts), op |-> 1, noise |-> {0}]

QuantInit ==
    /\ tool = "bench_quant"
    /\ args \in [min_seconds : QuantMinSeconds, scale : {0, 1},
                  build_dir : {"none", "custom"}, polars_modes : {"both", "multi", "single"},
                  profile_steps : BOOLEAN, profile_runs : ProfileRuns,
                  profile_repeat : ProfileRepeats, warmup : {0}]
    /\ fs \in [bin : [Dirs -> BOOLEAN], uv : BOOLEAN, plugin : {TRUE},
                environ : Environments]
    /\ cost \in [spawn : SpawnCosts, op : StepCosts, noise : {{0}, NoiseValues}]
    /\ Relevant
    /\ (DefaultLayout \/ DefaultOptions)

-----------------------------------------------------------------------------
(* tools/bench_tf.py *)

TfCandidates == <<"build-release", "build">>

\* detect_build_dir of bench_tf; "none" stands for the RuntimeError
tf_detect_build_dir == FirstWithBinary(TfCandidates)

probe_repeats == 3

TfHeader == <<[t |-> "extern", i |-> 0], [t |-> "let_tf_data", i |-> 0]>>

\* header + one "let r = <query_expr>;" line per repeat
make_script(query, repeats) ==
    TfHeader \o [k \in 1..Max(repeats, 0) |-> [t |-> "op", i |-> query]]

make_baseline_script == TfHeader

\* the failure test bench_operation applies to the probe and the bench run
tf_run_failed(proc) ==
    \/ proc.returncode # 0
    \/ Contains(Lower(proc.stdout \o proc.stderr), ErrorMarker)

\* faulty variant: the per-operation estimate floored at one tick, not 1 ms
tf_repeats_small_floor(min_seconds, probe_elapsed, baseline) ==
    Max(probe_repeats,
        Ceil(probe_repeats * min_seconds, Max(probe_elapsed - baseline, 1)))

\* op_ms_est = max((probe_elapsed * 1000.0 - baseline_ms) / probe_repeats, 1.0)
\* repeats = max(probe_repeats, math.ceil(min_seconds * 1000.0 / op_ms_est))
tf_repeats(min_seconds, probe_elapsed, baseline) ==
    Max(probe_repeats,
        Ceil(probe_repeats * min_seconds,
             Max(probe_elapsed - baseline, probe_repeats * 1000)))

\* net_ms = elapsed * 1000.0 - baseline_ms; avg_ms = net_ms / repeats
tf_avg_ms(elapsed, baseline, repeats) == Frac(elapsed - baseline, 1000 * repeats)

\* run_ibex: subprocess.run raises FileNotFoundError when the binary is
\* missing; nothing catches it
run_ibex(n, role, script, p, l, o, e) ==
    IF ~fs.bin[l.build_dir]
    THEN Terminate(n, 1, l, o, Append(e, ErrLine("FileNotFoundError", <<>>, <<>>)))
    ELSE Continue(n, "ibex", role, script, p, l, o, e)

\* for _ in range(warmup): run_ibex(script), then the measured run_ibex(script)
TfWarmThenRun(n, done, wrole, wpc, role, rpc, script, l, o, e) ==
    IF done < args.warmup
    THEN run_ibex(n, wrole, script, wpc, [l EXCEPT !.w = done + 1], o, e)
    ELSE run_ibex(n, role, script, rpc, [l EXCEPT !.w = 0], o, e)

\* bench_operation, lines 97-101, for query q
TfStartQuery(n, q, l, o, e) ==
    TfWarmThenRun(n, 0, "probe_warm", "wait_probe_warm", "probe", "wait_tf_probe",
                  make_script(q, probe_repeats), [l EXCEPT !.q = q, !.repeats = 0], o, e)

\* main, lines 121-144
TfStart ==
    /\ tool = "bench_tf" /\ pc = "start"
    /\ LET bd == IF args.build_dir # "none" THEN args.build_dir ELSE tf_detect_build_dir
           l == [loc EXCEPT !.build_dir = bd]
       IN  IF bd = "none"
           THEN Terminate(0, 1, loc, out, Append(err, ErrLine("ibex binary not found", <<>>, <<>>)))
           ELSE IF ~fs.plugin
           THEN Terminate(0, 1, l, out, Append(err, ErrLine("gen_tf_data.so not found", <<>>, <<>>)))
           ELSE TfWarmThenRun(0, 0, "base_warm", "wait_base_warm", "baseline",
                              "wait_baseline", make_baseline_script, l, out, err)
    /\ UNCHANGED <<const, profLog, outfile, calls, firstFail, timed>>

\* main, lines 143-145: a warm-up of the baseline script returns
TfBaseWarmReturn ==
    /\ tool = "bench_tf" /\ pc = "wait_base_warm"
    /\ \E proc \in IbexOutcomes :
        LET n == subprocess_run(children)
        IN  /\ TfWarmThenRun(n, loc.w, "base_warm", "wait_base_warm", "baseline",
                             "wait_baseline", child.script, loc, out, err)
            /\ firstFail' = NoteFail(proc)
    /\ UNCHANGED <<const, profLog, outfile, calls, timed>>

\* main, lines 145-156: the baseline run returns; its elapsed time is
\* printed and the first query starts
TfBaselineReturn ==
    /\ tool = "bench_tf" /\ pc = "wait_baseline"
    /\ \E proc \in IbexOutcomes, nz \in Noise :
        LET n == subprocess_run(children)
            baseline_elapsed == Elapsed(child.script, nz)
        IN  /\ TfStartQuery(n, 1, [loc EXCEPT !.baseline = baseline_elapsed],
                            Append(out, [t |-> "baseline", ms |-> Frac(baseline_elapsed, 1000)]),
                            err)
            /\ firstFail' = NoteFail(proc)
    /\ UNCHANGED <<const, profLog, outfile, calls, timed>>

\* bench_operation, lines 99-101: a warm-up of the probe script returns
TfProbeWarmReturn ==
    /\ tool = "bench_tf" /\ pc = "wait_probe_warm"
    /\ \E proc \in IbexOutcomes :
        LET n == subprocess_run(children)
        IN  /\ TfWarmThenRun(n, loc.w, "probe_warm", "wait_probe_warm", "probe",
                             "wait_tf_probe", child.script, loc, out, err)
            /\ firstFail' = NoteFail(proc)
    /\ UNCHANGED <<const, profLog, outfile, calls, timed>>

\* raise RuntimeError(f"{name} ... failed:\n{proc.stdout}\n{proc.stderr}"),
\* caught by main: "ERROR: ..." on stderr, return 1
TfAbort(n, proc) ==
    Terminate(n, 1, loc, out, Append(err, ErrLine("RuntimeError", proc.stdout, proc.stderr)))

\* bench_operation, lines 101-110: the probe returns
TfProbeReturn ==
    /\ tool = "bench_tf" /\ pc = "wait_tf_probe"
    /\ \E proc \in IbexOutcomes, nz \in Noise :
        LET n == subprocess_run(children)
            probe_elapsed == Elapsed(child.script, nz)
            repeats == tf_repeats(args.min_seconds, probe_elapsed, loc.baseline)
        IN  /\ IF tf_run_failed(proc)
               THEN TfAbort(n, proc)
               ELSE run_ibex(n, "bench_warm", make_script(loc.q, repeats),
                             "wait_bench_warm", [loc EXCEPT !.repeats = repeats], out, err)
            /\ firstFail' = NoteFail(proc)
    /\ UNCHANGED <<const, profLog, outfile, calls, timed>>

\* bench_operation, lines 110-111: the warm-up of the bench script returns
TfBenchWarmReturn ==
    /\ tool = "bench_tf" /\ pc = "wait_bench_warm"
    /\ \E proc \in IbexOutcomes :
        LET n == subprocess_run(children)
        IN  /\ run_ibex(n, "bench", child.script, "wait_tf_bench", loc, out, err)
            /\ firstFail' = NoteFail(proc)
    /\ UNCHANGED <<const, profLog, outfile, calls, timed>>

\* bench_operation, lines 111-117, and main, lines 152-164: the measured
\* run returns; the result is printed and the next query starts
TfBenchReturn ==
    /\ tool = "bench_tf" /\ pc = "wait_tf_bench"
    /\ \E proc \in IbexOutcomes, nz \in Noise :
        LET n == subprocess_run(children)
            elapsed == Elapsed(child.script, nz)
            avg_ms == tf_avg_ms(elapsed, loc.baseline, loc.repeats)
            o == Append(out, [t |-> "result", name |-> loc.q, iters |-> loc.repeats,
                              avg_ms |-> avg_ms])
        IN  /\ IF tf_run_failed(proc)
               THEN TfAbort(n, proc)
               ELSE IF loc.q < NumQueries
               THEN TfStartQuery(n, loc.q + 1, loc, o, err)
               ELSE Terminate(n, 0, loc, o, err)
            /\ firstFail' = NoteFail(proc)
            /\ timed' = IF tf_run_failed(proc) THEN timed
                        ELSE [elapsed |-> elapsed, execs |-> OpCount(child.script)]
    /\ UNCHANGED <<const, profLog, outfile, calls>>

TfInit ==
    /\ tool = "bench_tf"
    /\ args \in [min_seconds : TfMinSeconds, build_dir : {"none", "custom"},
                  warmup : 0..MaxWarmup]
    /\ fs \in [bin : [Dirs -> BOOLEAN], plugin : BOOLEAN]
    /\ cost \in [spawn : TfSpawnCosts, op : TfOpCosts, noise : {{0}, TfNoiseValues}]
    /\ args.build_dir # "none" => \A d \in Dirs \ {args.build_dir} : ~fs.bin[d]
    /\ args.build_dir = "none" => ~fs.bin["custom"]
    /\ \/ args.build_dir = "none" /\ fs.plugin /\ fs.bin["build-release"] /\ ~fs.bin["build"]
       \/ /\ args.min_seconds = 9000 /\ args.warmup = 1
          /\ cost = [spawn |-> MinOf(TfSpawnCosts), op |-> MinOf(TfOpCosts), noise |-> {0}]

-----------------------------------------------------------------------------
(* benchmarking/bench_python.py: timer, run and main *)

\* an uncaught exception: traceback on stderr, exit status 1
Crash(what) == Terminate(children, 1, loc, out, Append(err, ErrLine(what, <<>>, <<>>)))

\* history: the operation raised on its invocation number c
NoteRaise(c) ==
    IF firstFail = NoFail
    THEN [role |-> "fn", spawns |-> Len(spawnLog), calls |-> c,
          results |-> NumResults(out), printed |-> Len(out),
          stdout |-> <<>>, stderr |-> <<>>]
    ELSE firstFail

\* faulty variant: the clock read before the warm-up calls
timer_avg_ms_with_warmup(clock, t0, iters) == Frac(clock, 1000 * iters)

\* avg_ms = (time.perf_counter() - t0) * 1000 / iters
timer_avg_ms(clock, t0, iters) == Frac(clock - t0, 1000 * iters)

\* the text f"{avg_ms:.3f}": a decimal number with three decimals
Format3(avg_ms) == [t |-> "num", thousandths |-> Thousandths(avg_ms)]

\* w.writerow(["framework", "query", "avg_ms", "rows"])
TsvHeader == <<"framework", "query", "avg_ms", "rows">>

\* a file left at --out by an earlier run
OldFile ==
    [exists |-> TRUE, header |-> TsvHeader,
     rows |-> <<[framework |-> "pandas", query |-> "stale_query",
                 avg_ms |-> [t |-> "num", thousandths |-> 1], rows |-> 1]>>]

\* main runs the pandas suite, then the polars suite
PyFramework(q) == IF q = 1 THEN "pandas" ELSE "polars"

PyQueryNames == <<"mean_by_symbol", "ohlc_by_symbol", "update_price_x2">>

\* the name run() is called with for the query number q
PyQueryName(q) == PyQueryNames[((q - 1) % Len(PyQueryNames)) + 1]

\* rows.append((framework, name, f"{avg_ms:.3f}", n))
PyRow(q, avg_ms, n) ==
    [framework |-> PyFramework(q), query |-> PyQueryName(q),
     avg_ms |-> Format3(avg_ms), rows |-> n]

\* a tab-separated file: the header row, then the data rows
TsvFile(rows) == [exists |-> TRUE, header |-> TsvHeader, rows |-> rows]

\* faulty variant: the file opened for appending
WriteFileAppending(all_rows) == TsvFile(outfile.rows \o all_rows)

\* open(out, "w"): the header row, then the rows of all suites
WriteFile(all_rows) == TsvFile(all_rows)

\* faulty variant: the rows so far written to the file after every query
TimerFinishFlushing(l) ==
    IF args.iters = 0
    THEN /\ Crash("ZeroDivisionError") /\ outfile' = outfile
    ELSE LET avg_ms == timer_avg_ms(l.clock, l.t0, args.iters)
             row == [t |-> "result", name |-> l.q, avg_ms |-> avg_ms, rows |-> l.result]
             rows == Append(l.all_rows, PyRow(l.q, avg_ms, l.result))
         IN  IF l.q < NumPyQueries
             THEN /\ pc' = IF args.warmup > 0 THEN "py_warm" ELSE "py_timed"
                  /\ loc' = [l EXCEPT !.q = @ + 1, !.w = 0, !.i = 0, !.t0 = l.clock,
                                       !.all_rows = rows]
                  /\ out' = Append(out, row)
                  /\ outfile' = WriteFile(rows)
                  /\ UNCHANGED <<children, child, spawnLog, err, exit_code>>
             ELSE /\ Terminate(children, 0, [l EXCEPT !.all_rows = rows],
                               Append(out, row), err)
                  /\ outfile' = WriteFile(rows)

\* timer, line 24, with l the locals after the timed loop, then run
\* (lines 36-39) and main (lines 254-270): the row is recorded; the next
\* query starts or the file is written
TimerFinish(l) ==
    IF args.iters = 0
    THEN /\ Crash("ZeroDivisionError") /\ outfile' = outfile
    ELSE LET avg_ms == timer_avg_ms(l.clock, l.t0, args.iters)
             row == [t |-> "result", name |-> l.q, avg_ms |-> avg_ms, rows |-> l.result]
             rows == Append(l.all_rows, PyRow(l.q, avg_ms, l.result))
         IN  IF l.q < NumPyQueries
             THEN /\ pc' = IF args.warmup > 0 THEN "py_warm" ELSE "py_timed"
                  /\ loc' = [l EXCEPT !.q = @ + 1, !.w = 0, !.i = 0, !.t0 = l.clock,
                                       !.all_rows = rows]
                  /\ out' = Append(out, row)
                  /\ UNCHANGED <<children, child, spawnLog, err, exit_code, outfile>>
             ELSE /\ Terminate(children, 0, [l EXCEPT !.all_rows = rows],
                               Append(out, row), err)
                  /\ outfile' = WriteFile(rows)

\* main and timer up to the first call of the first query
PyStart ==
    /\ tool = "bench_python" /\ pc = "start"
    /\ IF args.warmup > 0
       THEN /\ pc' = "py_warm" /\ loc' = [loc EXCEPT !.q = 1]
            /\ UNCHANGED <<children, child, spawnLog, out, err, exit_code, outfile>>
       ELSE IF args.iters > 0
       THEN /\ pc' = "py_timed" /\ loc' = [loc EXCEPT !.q = 1]
            /\ UNCHANGED <<children, child, spawnLog, out, err, exit_code, outfile>>
       ELSE TimerFinish([loc EXCEPT !.q = 1])
    /\ UNCHANGED <<const, profLog, calls, firstFail, timed>>

\* timer, lines 19-21: one warm-up call of fn; after the last one t0 is read
PyWarmCall ==
    /\ tool = "bench_python" /\ pc = "py_warm"
    /\ \E raised \in BOOLEAN, nz \in Noise :
        LET l == [loc EXCEPT !.w = @ + 1, !.clock = @ + cost.op + nz,
                             !.t0 = loc.clock + cost.op + nz, !.result = calls + 1]
        IN  /\ calls' = calls + 1
            /\ IF raised
               THEN /\ Crash("fn raised") /\ firstFail' = NoteRaise(calls + 1)
                    /\ outfile' = outfile
               ELSE /\ firstFail' = firstFail
                    /\ IF l.w < args.warmup
                       THEN /\ pc' = "py_warm" /\ loc' = l
                            /\ UNCHANGED <<children, child, spawnLog, out, err,
                                           exit_code, outfile>>
                       ELSE IF args.iters > 0
                       THEN /\ pc' = "py_timed" /\ loc' = l
                            /\ UNCHANGED <<children, child, spawnLog, out, err,
                                           exit_code, outfile>>
                       ELSE TimerFinish(l)
    /\ UNCHANGED <<const, profLog, timed>>

\* timer, lines 22-25: one timed call of fn; after the last one the
\* average is taken
PyTimedCall ==
    /\ tool = "bench_python" /\ pc = "py_timed"
    /\ \E raised \in BOOLEAN, nz \in Noise :
        LET l == [loc EXCEPT !.i = @ + 1, !.clock = @ + cost.op + nz,
                             !.result = calls + 1]
        IN  /\ calls' = calls + 1
            /\ IF raised
               THEN /\ Crash("fn raised") /\ firstFail' = NoteRaise(calls + 1)
                    /\ outfile' = outfile /\ timed' = timed
               ELSE /\ firstFail' = firstFail
                    /\ IF l.i < args.iters
                       THEN /\ pc' = "py_timed" /\ loc' = l /\ timed' = timed
                            /\ UNCHANGED <<children, child, spawnLog, out, err,
                                           exit_code, outfile>>
                       ELSE /\ TimerFinish(l)
                            /\ timed' = [elapsed |-> l.clock - l.t0, execs |-> l.i]
    /\ UNCHANGED <<const, profLog>>

PyInit ==
    /\ tool = "bench_python"
    /\ args \in [warmup : 0..MaxWarmup, iters : 0..MaxIters]
    /\ fs = [bin |-> [d \in Dirs |-> FALSE], plugin |-> FALSE]
    /\ cost \in [spawn : {0}, op : StepCosts, noise : {{0}, NoiseValues}]

-----------------------------------------------------------------------------
(* examples/quant_pandas.py and examples/quant_polars.py: main, benchmark *)

\* avg_ms = 1000.0 * total / max(iterations, 1)
loop_avg_ms(total, iterations) == Frac(total, 1000 * Max(iterations, 1))

\* faulty variant: `if` in place of `while`, the pipeline timed once
LoopTestOnce(l) ==
    IF l.clock - l.t0 < args.min_seconds /\ l.i = 0
    THEN /\ pc' = "loop_iter" /\ loc' = l /\ timed' = timed
         /\ UNCHANGED <<children, child, spawnLog, out, err, exit_code>>
    ELSE LET total == l.clock - l.t0
         IN  /\ Terminate(children, 0, l,
                          Append(out, [t |-> "result", name |-> tool, iters |-> l.i,
                                       total |-> total,
                                       avg_ms |-> loop_avg_ms(total, l.i)]),
                          err)
             /\ timed' = [elapsed |-> total, execs |-> l.i]

\* benchmark, lines 202-210: the loop test, and the report when it fails
LoopTest(l) ==
    IF l.clock - l.t0 < args.min_seconds
    THEN /\ pc' = "loop_iter" /\ loc' = l /\ timed' = timed
         /\ UNCHANGED <<children, child, spawnLog, out, err, exit_code>>
    ELSE LET total == l.clock - l.t0
         IN  /\ Terminate(children, 0, l,
                          Append(out, [t |-> "result", name |-> tool, iters |-> l.i,
                                       total |-> total,
                                       avg_ms |-> loop_avg_ms(total, l.i)]),
                          err)
             /\ timed' = [elapsed |-> total, execs |-> l.i]

\* main: the scale check, then benchmark starts its warm-up
LoopStart ==
    /\ tool = "quant_pandas" /\ pc = "start"
    /\ IF args.scale < 1
       THEN Crash("--scale must be >= 1")
       ELSE /\ pc' = "loop_warm" /\ loc' = loc
            /\ UNCHANGED <<children, child, spawnLog, out, err, exit_code>>
    /\ UNCHANGED <<const, profLog, outfile, calls, firstFail, timed>>

\* benchmark, lines 199-202: the warm-up run, then start is read
LoopWarmCall ==
    /\ tool = "quant_pandas" /\ pc = "loop_warm"
    /\ \E raised \in BOOLEAN, nz \in Noise :
        LET l == [loc EXCEPT !.clock = @ + cost.op + nz, !.t0 = loc.clock + cost.op + nz]
        IN  /\ calls' = calls + 1
            /\ IF raised
               THEN /\ Crash("run_pipeline raised") /\ firstFail' = NoteRaise(calls + 1)
                    /\ timed' = timed
               ELSE /\ firstFail' = firstFail /\ LoopTest(l)
    /\ UNCHANGED <<const, profLog, outfile>>

\* benchmark, lines 203-204: one timed run of the pipeline
LoopIterCall ==
    /\ tool = "quant_pandas" /\ pc = "loop_iter"
    /\ loc.i < MaxIterations
    /\ \E raised \in BOOLEAN, nz \in Noise :
        LET l == [loc EXCEPT !.clock = @ + cost.op + nz, !.i = @ + 1]
        IN  /\ calls' = calls + 1
            /\ IF raised
               THEN /\ Crash("run_pipeline raised") /\ firstFail' = NoteRaise(calls + 1)
                    /\ timed' = timed
               ELSE /\ firstFail' = firstFail /\ LoopTest(l)
    /\ UNCHANGED <<const, profLog, outfile>>

LoopInit ==
    /\ tool = "quant_pandas"
    /\ args \in [min_seconds : QuantMinSeconds, scale : {0, 1}]
    /\ fs = [bin |-> [d \in Dirs |-> FALSE], plugin |-> FALSE]
    /\ cost \in [spawn : {0}, op : StepCosts, noise : {{0}, NoiseValues}]

-----------------------------------------------------------------------------
(* benchmarking/print_table.py: main, load, fmt, print_table *)

\* the canonical framework order; of its seven entries the model keeps the
\* baseline, the second entry (left out of the summary like the baseline)
\* and one framework that is compared
FRAMEWORK_ORDER == <<"ibex", "ibex+parse", "polars">>

\* the canonical query order; the model keeps three of its six entries
QUERY_ORDER == <<"mean_by_symbol", "ohlc_by_symbol", "update_price_x2">>

\* a field of a row: a decimal number, another text, or None (csv.DictReader
\* fills the fields a short row lacks with None)
Num(k) == [t |-> "num", thousandths |-> k]
Text == [t |-> "text", thousandths |-> 0]
None == [t |-> "none", thousandths |-> 0]

TsvRow(fw, q, avg, n) == [framework |-> fw, query |-> q, avg_ms |-> avg, rows |-> n]

\* the rows the files are made of: the measured values (zero and a
\* negative number included) of the compared frameworks, a framework
\* outside the canonical list, a query outside the canonical list, a
\* non-numeric avg_ms, and rows cut off after the query and after the
\* framework
TableRows ==
    {TsvRow(fw, q, Num(k), 7) : fw \in {"ibex", "polars"},
                                q \in {"mean_by_symbol", "ohlc_by_symbol"},
                                k \in {-1000, 0, 2000}}
    \cup {TsvRow("ibex+parse", "mean_by_symbol", Num(2000), 7),
          TsvRow("r-base", "mean_by_symbol", Num(2000), 7),
          TsvRow("polars", "null_left_join", Num(2000), 7),
          TsvRow("polars", "mean_by_symbol", Text, 7),
          TsvRow("polars", "mean_by_symbol", None, 0),
          TsvRow("polars", "", None, 0)}

\* avg_ms of ibex for the queries of QUERY_ORDER, in thousandths of a
\* millisecond (10, 20 and 40 ms), and the avg_ms of a compared framework:
\* twice, half, equally and four times as fast on every query, and twice
\* as fast on two queries and four times on the third
BaselineMs == <<10000, 20000, 40000>>
FrameworkMs ==
    {<<5000, 10000, 20000>>, <<20000, 40000, 80000>>, <<10000, 20000, 40000>>,
     <<2500, 5000, 10000>>, <<5000, 10000, 10000>>}

\* the rows of a results file with ibex and polars measured on the first n
\* queries of QUERY_ORDER
ComparisonRows(fw_ms, n) ==
    [i \in 1..n |-> TsvRow("ibex", QUERY_ORDER[i], Num(BaselineMs[i]), 7)]
    \o [i \in 1..n |-> TsvRow("polars", QUERY_ORDER[i], Num(fw_ms[i]), 7)]

\* the sequences over S of length at most n
RECURSIVE SeqUpTo(_, _)
SeqUpTo(S, n) ==
    IF n = 0 THEN {<<>>}
    ELSE LET shorter == SeqUpTo(S, n - 1)
         IN  shorter \cup {Append(s, x) : s \in {t \in shorter : Len(t) = n - 1}, x \in S}

\* the records of a result store that is written out and loaded back
StoreRecords ==
    {[framework |-> p[1], query |-> p[2], avg_ms |-> a, rows |-> 7] :
        p \in {<<"ibex", "mean_by_symbol">>, <<"polars", "mean_by_symbol">>,
               <<"polars", "ohlc_by_symbol">>},
        a \in {Frac(2, 3), Frac(5, 2000), Frac(2, 1)}}

\* the file main of bench_python writes for the records recs
Serialize(recs) ==
    TsvFile([k \in 1..Len(recs) |->
        TsvRow(recs[k].framework, recs[k].query, Format3(recs[k].avg_ms), recs[k].rows)])

\* the rows of two files that name the same (framework, query) pair
DuplicateRows ==
    {TsvRow("polars", "mean_by_symbol", Num(-1000), 7),
     TsvRow("polars", "mean_by_symbol", Num(2000), 7),
     TsvRow("polars", "mean_by_symbol", Text, 7)}

\* faulty variant: the first value of a pair is kept
PutIfAbsent(data, q, fw, v) ==
    [k \in DOMAIN data \cup {<<q, fw>>} |-> IF k \in DOMAIN data THEN data[k] ELSE v]

\* data[query][fw] = avg_ms, kept as a function on the pairs <<query, fw>>
Put(data, q, fw, v) ==
    [k \in DOMAIN data \cup {<<q, fw>>} |-> IF k = <<q, fw>> THEN v ELSE data[k]]

\* data.get(q, {}).get(fw): <<>> stands for None, <<v>> for the value
Get(data, q, fw) == IF <<q, fw>> \in DOMAIN data THEN <<data[<<q, fw>>]>> ELSE <<>>

\* q in data
HasQuery(data, q) == \E k \in DOMAIN data : k[1] = q

\* round(a / b) for b > 0, ties to even: the digits a format keeps
RoundDiv(a, b) ==
    LET q == a \div b
        r == a % b
    IN  IF 2 * r < b THEN q
        ELSE IF 2 * r > b THEN q + 1
        ELSE IF q % 2 = 0 THEN q ELSE q + 1

\* faulty variant: a missing value printed as a measured zero
fmtMissingAsZero(v) ==
    IF v = <<>> THEN [t |-> "ms, 2 decimals", digits |-> 0]
    ELSE IF v[1] >= 1000000 THEN [t |-> "s, 2 decimals", digits |-> RoundDiv(v[1], 10000)]
    ELSE IF v[1] >= 10000 THEN [t |-> "ms, 1 decimal", digits |-> RoundDiv(v[1], 100)]
    ELSE [t |-> "ms, 2 decimals", digits |-> RoundDiv(v[1], 10)]

\* fmt(v), v in thousandths of a millisecond
fmt(v) ==
    IF v = <<>> THEN [t |-> "no data", digits |-> 0]
    ELSE IF v[1] >= 1000000 THEN [t |-> "s, 2 decimals", digits |-> RoundDiv(v[1], 10000)]
    ELSE IF v[1] >= 10000 THEN [t |-> "ms, 1 decimal", digits |-> RoundDiv(v[1], 100)]
    ELSE [t |-> "ms, 2 decimals", digits |-> RoundDiv(v[1], 10)]

\* faulty variant: a framework counts as present under any query
PresentAnywhere(data) ==
    SelectSeq(FRAMEWORK_ORDER, LAMBDA fw : \E k \in DOMAIN data : k[2] = fw)

\* present = [fw for fw in FRAMEWORK_ORDER
\*            if any(fw in data.get(q, {}) for q in QUERY_ORDER)]
Present(data) ==
    SelectSeq(FRAMEWORK_ORDER,
              LAMBDA fw : \E i \in DOMAIN QUERY_ORDER : Get(data, QUERY_ORDER[i], fw) # <<>>)

\* the table, lines 96-102: one line per query of QUERY_ORDER, one cell per
\* present framework; line 97 skips a query only when data is empty
TableLines(data, present) ==
    LET shown == SelectSeq(QUERY_ORDER,
                           LAMBDA q : ~(~HasQuery(data, q) /\ DOMAIN data = {}))
    IN  [i \in 1..Len(shown) |->
            [t |-> "row", query |-> shown[i],
             cells |-> [j \in 1..Len(present) |-> fmt(Get(data, shown[i], present[j]))]]]

\* faulty variant: the ratio collected whenever both values exist
RatioQueriesBothExist(data, fw) ==
    SelectSeq(QUERY_ORDER,
              LAMBDA q : Get(data, q, "ibex") # <<>> /\ Get(data, q, fw) # <<>>)

\* lines 112-117: the queries whose ratio ibex_v / fw_v is collected
\* (`if ibex_v and fw_v and fw_v > 0`: a value of 0 is falsy like None)
RatioQueries(data, fw) ==
    SelectSeq(QUERY_ORDER,
              LAMBDA q : LET ibex_v == Get(data, q, "ibex")
                             fw_v == Get(data, q, fw)
                         IN  /\ ibex_v # <<>> /\ ibex_v[1] # 0
                             /\ fw_v # <<>> /\ fw_v[1] # 0 /\ fw_v[1] > 0)

Ratios(data, fw) ==
    LET qs == RatioQueries(data, fw)
    IN  [i \in 1..Len(qs) |-> Frac(data[<<qs[i], "ibex">>], data[<<qs[i], fw>>])]

\* math.log(r) raises ValueError for r <= 0
LogRaises(ratios) == \E i \in DOMAIN ratios : ratios[i].num <= 0

RECURSIVE Gcd(_, _)
Gcd(a, b) == IF b = 0 THEN a ELSE Gcd(b, a % b)

\* a positive fraction in lowest terms
Reduce(f) == Frac(f.num \div Gcd(f.num, f.den), f.den \div Gcd(f.num, f.den))

RECURSIVE ProdNum(_, _)
ProdNum(ratios, k) ==
    IF k = 0 THEN 1 ELSE Reduce(ratios[k]).num * ProdNum(ratios, k - 1)

RECURSIVE ProdDen(_, _)
ProdDen(ratios, k) ==
    IF k = 0 THEN 1 ELSE Reduce(ratios[k]).den * ProdDen(ratios, k - 1)

RECURSIVE Pow(_, _)
Pow(a, n) == IF n = 0 THEN 1 ELSE a * Pow(a, n - 1)

\* faulty variant: the sum of the logarithms not divided by len(ratios)
geometric_mean_unaveraged(ratios) ==
    [root |-> 1,
     of |-> Frac(ProdNum(ratios, Len(ratios)), ProdDen(ratios, Len(ratios)))]

\* line 119: gm = math.exp(sum(math.log(r) for r in ratios) / len(ratios)),
\* in exact arithmetic the positive real x with x^root = of, where `of` is
\* the product of the ratios and root their number
geometric_mean(ratios) ==
    [root |-> Len(ratios),
     of |-> Frac(ProdNum(ratios, Len(ratios)), ProdDen(ratios, Len(ratios)))]

\* f"{x:.1f}" for the x > 0 with x^root = of: the tenths k nearest to x,
\* ties to even
Tenths(root, of) ==
    LET scaled == Pow(20, root) * of.num
        \* the least integer that is >= x
        above == Cardinality({m \in 0..(of.num \div of.den) :
                                 Pow(m, root) * of.den < of.num})
        near == {k \in 0..(10 * above) :
                    /\ (k = 0 \/ Pow(2 * k - 1, root) * of.den <= scaled)
                    /\ scaled <= Pow(2 * k + 1, root) * of.den}
    IN  IF \E k \in near : k % 2 = 0
        THEN CHOOSE k \in near : k % 2 = 0
        ELSE CHOOSE k \in near : TRUE

\* lines 118-123: the line of a framework with a non-empty ratio list:
\* "{fw} is {gm:.1f}x faster than ibex" if gm > 1, else
\* "ibex is {1/gm:.1f}x faster than {fw}"
AggregateLine(fw, ratios) ==
    LET gm == geometric_mean(ratios)
    IN  [t |-> "aggregate", fw |-> fw, over |-> Len(ratios), ratios |-> ratios,
         gm |-> gm,
         faster |-> IF gm.of.num > gm.of.den THEN fw ELSE "ibex",
         times |-> IF gm.of.num > gm.of.den
                   THEN Tenths(gm.root, gm.of)
                   ELSE Tenths(gm.root, Frac(gm.of.den, gm.of.num))]

\* the frameworks the summary loop reaches before math.log raises, or all
Compared(present) ==
    SelectSeq(present, LAMBDA fw : fw \notin {"ibex", "ibex+parse"})

RECURSIVE SummaryLines(_, _, _)
SummaryLines(data, fws, k) ==
    IF k > Len(fws) \/ LogRaises(Ratios(data, fws[k])) THEN <<>>
    ELSE (IF Ratios(data, fws[k]) = <<>> THEN <<>>
          ELSE <<AggregateLine(fws[k], Ratios(data, fws[k]))>>)
         \o SummaryLines(data, fws, k + 1)

SummaryRaises(data, fws) == \E k \in DOMAIN fws : LogRaises(Ratios(data, fws[k]))

\* the frameworks whose ratio list the summary loop has built: all of fws,
\* or those up to the one at which math.log raises
Reached(data, fws) ==
    {fws[k] : k \in {i \in DOMAIN fws :
                        \A j \in 1..(i - 1) : ~LogRaises(Ratios(data, fws[j]))}}

\* print_table(data), then main returns; ratio_queries keeps, for every
\* framework reached, the queries whose ratio was appended to `ratios`
print_table(data) ==
    LET present == Present(data)
        fws == Compared(present)
        l == [loc EXCEPT !.present = present,
                         !.ratio_queries =
                             [fw \in Reached(data, fws) |->
                                 {RatioQueries(data, fw)[i] :
                                     i \in DOMAIN RatioQueries(data, fw)}]]
        lines == TableLines(data, present) \o SummaryLines(data, fws, 1)
    IN  IF present = <<>>
        THEN Terminate(0, 0, l, out, Append(err, ErrLine("No results found.", <<>>, <<>>)))
        ELSE IF SummaryRaises(data, fws)
        THEN Terminate(0, 1, l, out \o lines, Append(err, ErrLine("ValueError", <<>>, <<>>)))
        ELSE Terminate(0, 0, l, out \o lines, err)

\* main, lines 128-134: without paths and without results/*.tsv the usage
\* message is the exit status; else load opens the first file (fi is the
\* position in paths, ri the row in that file)
TableStart ==
    /\ tool = "print_table" /\ pc = "start"
    /\ IF args.paths = <<>>
       THEN Terminate(0, 1, loc, out, Append(err, ErrLine("Usage", <<>>, <<>>)))
       ELSE /\ pc' = "load" /\ loc' = [loc EXCEPT !.fi = 1, !.ri = 1]
            /\ UNCHANGED <<children, child, spawnLog, out, err, exit_code>>
    /\ UNCHANGED <<const, profLog, outfile, calls, firstFail, timed>>

\* load, lines 45-52: one row of the file
LoadRow ==
    /\ tool = "print_table" /\ pc = "load"
    /\ loc.ri <= Len(args.paths[loc.fi].rows)
    /\ LET row == args.paths[loc.fi].rows[loc.ri]
       IN  IF row.avg_ms.t = "none"
           THEN Terminate(0, 1, loc, out, Append(err, ErrLine("TypeError", <<>>, <<>>)))
           ELSE /\ pc' = "load"
                /\ loc' = [loc EXCEPT !.ri = @ + 1,
                                      !.data = IF row.avg_ms.t = "num"
                                               THEN Put(@, row.query, row.framework,
                                                        row.avg_ms.thousandths)
                                               ELSE @]
                /\ UNCHANGED <<children, child, spawnLog, out, err, exit_code>>
    /\ UNCHANGED <<const, profLog, outfile, calls, firstFail, timed>>

\* the end of a file: load opens the next path (line 43), or returns after
\* the last one and main calls print_table
LoadReturn ==
    /\ tool = "print_table" /\ pc = "load"
    /\ loc.ri > Len(args.paths[loc.fi].rows)
    /\ IF loc.fi < Len(args.paths)
       THEN /\ pc' = "load" /\ loc' = [loc EXCEPT !.fi = @ + 1, !.ri = 1]
            /\ UNCHANGED <<children, child, spawnLog, out, err, exit_code>>
       ELSE print_table(loc.data)
    /\ UNCHANGED <<const, profLog, outfile, calls, firstFail, timed>>

TableInit ==
    /\ tool = "print_table"
    /\ \/ /\ args \in [paths : {<<>>}, records : {<<>>}]
       \/ \E rows \in SeqUpTo(TableRows, MaxRows) :
             args = [paths |-> <<TsvFile(rows)>>, records |-> <<>>]
       \/ \E first, second \in SeqUpTo(DuplicateRows, MaxRows) :
             args = [paths |-> <<TsvFile(first), TsvFile(second)>>, records |-> <<>>]
       \/ \E fw_ms \in FrameworkMs, n \in 1..Len(QUERY_ORDER) :
             args = [paths |-> <<TsvFile(ComparisonRows(fw_ms, n))>>, records |-> <<>>]
       \/ \E recs \in SeqUpTo(StoreRecords, MaxRows) \ {<<>>} :
             args = [paths |-> <<Serialize(recs)>>, records |-> recs]
    /\ fs = [bin |-> [d \in Dirs |-> FALSE], plugin |-> FALSE]
    /\ cost = [spawn |-> 0, op |-> 0, noise |-> {0}]

Init ==
    /\ (QuantInit \/ TfInit \/ PyInit \/ LoopInit \/ TableInit)
    /\ pc = "start"
    /\ children = 0
    /\ child = NoChild
    /\ spawnLog = <<>>
    /\ calls = 0
    /\ loc = IF tool = "bench_quant" THEN [LocInit EXCEPT !.environ = fs.environ]
             ELSE LocInit
    /\ out = <<>>
    /\ err = <<>>
    /\ exit_code = NoExit
    /\ firstFail = NoFail
    /\ timed = NoTimed
    /\ outfile \in (IF tool = "bench_python" THEN {NoFile, OldFile} ELSE {NoFile})
    /\ profLog = <<>>

Next ==
    \/ QuantStart
    \/ QuantPolarsMtReturn
    \/ QuantPolarsStReturn
    \/ QuantPandasReturn
    \/ QuantWarmReturn
    \/ QuantProbeReturn
    \/ QuantWarm2Return
    \/ QuantBenchReturn
    \/ QuantWarm3Return
    \/ QuantBench2Return
    \/ QuantProfileReturn
    \/ TfStart
    \/ TfBaseWarmReturn
    \/ TfBaselineReturn
    \/ TfProbeWarmReturn
    \/ TfProbeReturn
    \/ TfBenchWarmReturn
    \/ TfBenchReturn
    \/ PyStart
    \/ PyWarmCall
    \/ PyTimedCall
    \/ LoopStart
    \/ LoopWarmCall
    \/ LoopIterCall
    \/ TableStart
    \/ LoadRow
    \/ LoadReturn

Spec == Init /\ [][Next]_vars

\* quant_pandas / quant_polars alone: a sequential program, whose
\* interpreter executes the next statement as long as there is one
LoopSpecInit == Init /\ tool = "quant_pandas"

LoopNext ==
    \/ LoopStart
    \/ LoopWarmCall
    \/ LoopIterCall

LoopSpec == LoopSpecInit /\ [][LoopNext]_vars /\ WF_vars(LoopNext)

-----------------------------------------------------------------------------
(* Properties *)

Exited == pc = "exit"

\* the runs whose elapsed time enters a reported number
MeasuredRoles == {"probe", "bench", "bench2", "baseline", "profile"}

LastErr == err[Len(err)]

\* C1: in every timing harness a failure of the operation on any
\* invocation, warm-ups included, propagates at once: after the failing
\* invocation the operation is not invoked again (no further child, no
\* further call) and no further average is printed.
C1_FailurePropagates ==
    firstFail # NoFail =>
        /\ Len(spawnLog) = firstFail.spawns
        /\ calls = firstFail.calls
        /\ NumResults(out) = firstFail.results

\* C2: an engine run with a non-zero exit code or an "error:" marker is
\* failed; when a run whose elapsed time is measured has failed, the
\* harness has stopped with exit status 1 and an error line that carries
\* the captured stdout and stderr, no further child was started and
\* nothing was printed on standard output after that run.
C2_NoNumberFromFailedRun ==
    firstFail.role \in MeasuredRoles =>
        /\ Exited /\ exit_code = 1
        /\ err # <<>>
        /\ LastErr.stdout = firstFail.stdout /\ LastErr.stderr = firstFail.stderr
        /\ Len(spawnLog) = firstFail.spawns
        /\ Len(out) = firstFail.printed

\* the calibration of the tool has returned a repeat count
Calibrated ==
    \/ tool = "bench_quant" /\ loc.ibex_stats # NoStats
    \/ tool = "bench_tf" /\ out # <<>> /\ out[Len(out)].t = "result"

\* C3: with a fixed spawn overhead and a fixed positive per-call cost (no
\* noise) and min_seconds = T > 0, the total elapsed time of the final
\* measured run of a calibration is at least T.
C3_CalibrationReachesTarget ==
    (Calibrated /\ cost.noise = {0} /\ cost.op > 0 /\ args.min_seconds > 0) =>
        timed.elapsed >= args.min_seconds

\* the result lines that are the harness's own measurements (in the table
\* of bench_quant the first line, ibex)
OwnResults ==
    {i \in DOMAIN out : out[i].t = "result" /\ (tool = "bench_quant" => i = 1)}

LastOwnResult == out[CHOOSE i \in OwnResults : \A j \in OwnResults : j <= i]

RolesSpawned == {spawnLog[i].role : i \in DOMAIN spawnLog}

CountRole(r) == Cardinality({i \in DOMAIN spawnLog : spawnLog[i].role = r})

\* C4: when min_seconds <= 0 calibration does not skip measurement: the
\* probe and one measured run were spawned for every result, the repeat
\* count reported equals the probe count (1 in bench_ibex_compute_only, 3
\* in bench_operation) and the second-order correction is never started.
C4_NonPositiveTargetKeepsProbeCount ==
    (tool \in {"bench_quant", "bench_tf"} /\ args.min_seconds <= 0) =>
        /\ RolesSpawned \cap {"warm3", "bench2"} = {}
        /\ \A i \in OwnResults :
              /\ out[i].iters = IF tool = "bench_quant" THEN 1 ELSE probe_repeats
        /\ CountRole("probe") >= Cardinality(OwnResults)
        /\ CountRole("bench") >= Cardinality(OwnResults)
        /\ OwnResults # {} => timed.execs = LastOwnResult.iters

C4_Witness ==
    /\ tool = "bench_quant" /\ args.min_seconds = 0
    /\ Exited /\ exit_code = 0 /\ OwnResults # {} /\ LastOwnResult.iters = 1

Count(script, t) == Cardinality({i \in DOMAIN script : script[i].t = t})

CountStep(script, k) ==
    Cardinality({i \in DOMAIN script : script[i].t = "op" /\ script[i].i = k})

\* the repeat count the running ibex child was generated for
ChildRepeats ==
    CASE child.role \in {"warm", "probe"} /\ tool = "bench_quant" -> 1
      [] child.role \in {"probe_warm", "probe"} -> probe_repeats
      [] child.role = "profile" -> Max(args.profile_repeat, 1)
      [] child.role \in {"base_warm", "baseline"} -> 0
      [] OTHER -> loc.repeats

\* the calibration runs of the running query
CalibrationRoles ==
    {"warm", "probe", "warm2", "bench", "warm3", "bench2", "probe_warm", "bench_warm"}

CalibrationSpawns ==
    Cardinality({i \in DOMAIN spawnLog : spawnLog[i].role \in CalibrationRoles})

\* C6: the script of every ibex child holds each header line exactly once
\* and exactly N copies of the operation, N >= 1 being the repeat count it
\* was generated for; one measurement is one child, so a calibration of
\* bench_quant spawns at most 6 children and one of bench_tf at most
\* warmup + 3 per query, whatever N is.
C6_OneScriptOneSpawn ==
    child.fw = "ibex" =>
        /\ children = 1
        /\ IF tool = "bench_quant"
           THEN /\ Count(child.script, "extern") = 1
                /\ Count(child.script, "let_ohlcv") = 1
                /\ Count(child.script, "let_fund") = 1
                /\ ChildRepeats >= 1
                /\ LET k == IF child.role = "profile" THEN loc.step_count ELSE NumSteps
                   IN  /\ \A j \in 1..k : CountStep(child.script, j) = ChildRepeats
                       /\ Len(child.script) = 3 + k * ChildRepeats
                /\ CalibrationSpawns <= 6
           ELSE /\ Count(child.script, "extern") = 1
                /\ Count(child.script, "let_tf_data") = 1
                /\ child.role \notin {"base_warm", "baseline"} =>
                      /\ ChildRepeats >= 1
                      /\ CountStep(child.script, loc.q) = ChildRepeats
                /\ Len(child.script) = 2 + ChildRepeats
                /\ CalibrationSpawns <= loc.q * (args.warmup + 3)

C6_Witness ==
    /\ tool = "bench_quant" /\ child.role = "bench2" /\ loc.repeats > 4
    /\ children = 1 /\ CountStep(child.script, 1) = loc.repeats

\* C7: without --build-dir the build directory is the first of
\* build-release, build (the order detect_build_dir tries them) whose
\* tools/ibex exists; when neither has it the tool has ended with the
\* "no build found" error; either way the decision precedes every child.
C7_FirstCandidateWins ==
    (tool \in {"bench_quant", "bench_tf"} /\ args.build_dir = "none") =>
        /\ pc = "start" => spawnLog = <<>>
        /\ pc # "start" =>
              IF fs.bin["build-release"] THEN loc.build_dir = "build-release"
              ELSE IF fs.bin["build"] THEN loc.build_dir = "build"
              ELSE /\ loc.build_dir = "none" /\ Exited /\ exit_code = 1
                   /\ spawnLog = <<>> /\ children = 0
                   /\ Len(err) = 1
                   /\ err[1].t \in {"could not find ibex binary", "ibex binary not found"}

C7_Witness ==
    /\ tool = "bench_quant" /\ args.build_dir = "none"
    /\ fs.bin["build-release"] /\ fs.bin["build"]
    /\ loc.build_dir = "build-release" /\ spawnLog # <<>>

\* C8: without --build-dir bench_quant tries build first and build-release
\* second, so build is selected when both contain tools/ibex.
C8_BuildBeforeBuildRelease ==
    (/\ tool = "bench_quant" /\ args.build_dir = "none" /\ pc # "start"
     /\ fs.bin["build"] /\ fs.bin["build-release"]) =>
        loc.build_dir = "build"

\* a configuration error of the run
ConfigurationError ==
    \/ /\ tool = "bench_quant"
       /\ \/ args.scale < 1
          \/ ~fs.uv
          \/ IF args.build_dir = "none"
             THEN ~fs.bin["build-release"] /\ ~fs.bin["build"]
             ELSE ~fs.bin[args.build_dir]
    \/ /\ tool = "bench_tf"
       /\ \/ ~fs.plugin
          \/ IF args.build_dir = "none"
             THEN ~fs.bin["build-release"] /\ ~fs.bin["build"]
             ELSE ~fs.bin[args.build_dir]

\* C9: a configuration error (scale < 1, no build directory found, ibex
\* binary or plugin missing, also with --build-dir) makes the tool exit
\* non-zero before any child process has been started.
C9_ConfigurationErrorFailsFast ==
    ConfigurationError =>
        /\ spawnLog = <<>> /\ children = 0
        /\ Exited => exit_code # 0

Rank(fw) ==
    CASE fw = "polars-mt" -> 1
      [] fw = "polars-st" -> 2
      [] fw = "pandas" -> 3
      [] fw = "ibex" -> 4

CountFw(fw) == Cardinality({i \in DOMAIN spawnLog : spawnLog[i].fw = fw})

\* C10: at most one child process exists at any moment, a child exists
\* exactly while the harness waits for it, and the children are started
\* in the order polars multi-thread, polars single-thread, pandas, ibex
\* runs, each python child at most once.
C10_OneChildAtATime ==
    /\ children \in {0, 1}
    /\ children = 1 <=> child # NoChild
    /\ Exited => children = 0
    /\ \A i \in 1..(Len(spawnLog) - 1) :
          Rank(spawnLog[i].fw) <= Rank(spawnLog[i + 1].fw)
    /\ \A fw \in {"polars-mt", "polars-st", "pandas"} : CountFw(fw) <= 1
    /\ (tool = "bench_quant" /\ CountFw("ibex") > 0) => CountFw("pandas") = 1

C10_Witness ==
    /\ children = 1 /\ child.fw = "ibex" /\ child.role = "bench"
    /\ Len(spawnLog) = 7
    /\ spawnLog[1].fw = "polars-mt" /\ spawnLog[2].fw = "polars-st"
    /\ spawnLog[3].fw = "pandas"


\* C11: bench_quant and bench_tf end with exit code 0 only if no child run
\* failed; after the first failed run no further child is spawned and the
\* tool ends with exit code 1 and a diagnostic on standard error.
C11_ExitCodeReflectsFailure ==
    tool \in {"bench_quant", "bench_tf"} =>
        /\ (Exited /\ exit_code = 0) => firstFail = NoFail
        /\ firstFail # NoFail =>
              /\ Exited /\ exit_code = 1 /\ err # <<>>
              /\ Len(spawnLog) = firstFail.spawns
        /\ (Exited /\ exit_code = 1) => err # <<>>


\* the successful profile runs of step k
RunsOfStep(k) == {i \in DOMAIN profLog : profLog[i].step = k}

RECURSIVE SumElapsed(_)
SumElapsed(S) ==
    IF S = {} THEN 0
    ELSE LET i == CHOOSE x \in S : TRUE
         IN  profLog[i].elapsed + SumElapsed(S \ {i})

\* runs per step and copies per script that profile_ibex_steps uses
EffectiveRuns == Max(args.profile_runs, 1)
EffectiveRepeat == Max(args.profile_repeat, 1)

\* the denominator of every cumulative_ms fraction
DeltaDen == 1000 * EffectiveRuns * EffectiveRepeat

\* a fraction whose denominator is a multiple of DeltaDen, in units of
\* 1 / DeltaDen
InUnits(f) == f.num \div (f.den \div DeltaDen)

RECURSIVE SumDeltaNum(_, _)
SumDeltaNum(rows, k) ==
    IF k = 0 THEN 0
    ELSE InUnits(rows[k].delta_ms) + SumDeltaNum(rows, k - 1)

\* the rows main has printed
PrintedRows == SelectSeq(out, LAMBDA ln : ln.t = "step")

\* C12: the rows of profile_ibex_steps are the steps 1..N in order; row k
\* was measured on runs of a script holding exactly the first k steps
\* (repeat copies of each), cumulative_ms of row k is
\* 1000 * (sum of the elapsed times of its runs) / (runs * repeat), delta_ms
\* is cumulative_ms minus the cumulative_ms of the row before (0 for the
\* first), and the deltas of rows 1..k sum to cumulative_ms of row k; on
\* success main prints all N rows.
C12_ProfileRows ==
    tool = "bench_quant" =>
        /\ \A k \in DOMAIN loc.rows :
              LET row == loc.rows[k]
                  prev == IF k = 1 THEN Frac(0, 1) ELSE loc.rows[k - 1].cumulative_ms
              IN  /\ row.step_index = k
                  /\ Cardinality(RunsOfStep(k)) = EffectiveRuns
                  /\ \A i \in RunsOfStep(k) :
                        /\ profLog[i].opset = 1..k
                        /\ profLog[i].ops = k * EffectiveRepeat
                  /\ row.cumulative_ms =
                        Frac(SumElapsed(RunsOfStep(k)),
                             1000 * EffectiveRuns * EffectiveRepeat)
                  /\ row.delta_ms = FracSub(row.cumulative_ms, prev)
                  /\ row.delta_ms.den % DeltaDen = 0
                  /\ row.delta_ms.num % (row.delta_ms.den \div DeltaDen) = 0
                  /\ SumDeltaNum(loc.rows, k) = row.cumulative_ms.num
        /\ (args.profile_steps /\ Exited /\ exit_code = 0) =>
              /\ Len(loc.rows) = NumSteps
              /\ PrintedRows = loc.rows

C12_Witness ==
    /\ tool = "bench_quant" /\ Exited /\ exit_code = 0
    /\ args.profile_runs = 2 /\ args.profile_repeat = 2
    /\ Len(loc.rows) = NumSteps /\ PrintedRows = loc.rows
    /\ FracLess(Frac(0, 1), loc.rows[NumSteps].delta_ms)


\* C13: when a run of a step fails during profile_ibex_steps the profile
\* aborts: main prints no profile row, not even for the steps already
\* measured, no further child is spawned, and the exit code is 1 with the
\* captured output on standard error.
C13_ProfileAbortsWhole ==
    (tool = "bench_quant" /\ firstFail.role = "profile") =>
        /\ Exited /\ exit_code = 1
        /\ PrintedRows = <<>>
        /\ Len(out) = firstFail.printed
        /\ Len(spawnLog) = firstFail.spawns
        /\ children = 0
        /\ LastErr.stdout = firstFail.stdout /\ LastErr.stderr = firstFail.stderr

C13_Witness ==
    /\ tool = "bench_quant" /\ firstFail.role = "profile" /\ Exited
    /\ loc.rows # <<>> /\ loc.step_count = NumSteps
    /\ PrintedRows = <<>>


\* every run takes the fixed startup time plus the fixed non-negative cost
\* of each step it executes
AdditiveCosts == cost.noise = {0} /\ cost.spawn >= 0 /\ cost.op >= 0

\* C14: with additive non-negative step costs and a fixed startup time the
\* rows of profile_ibex_steps have non-decreasing cumulative_ms and every
\* delta_ms is >= 0; delta_ms is always the plain difference, never clamped.
C14_AdditiveStepsMonotone ==
    tool = "bench_quant" =>
        \A k \in DOMAIN loc.rows :
            LET row == loc.rows[k]
                prev == IF k = 1 THEN Frac(0, 1) ELSE loc.rows[k - 1].cumulative_ms
            IN  /\ row.delta_ms = FracSub(row.cumulative_ms, prev)
                /\ AdditiveCosts =>
                      /\ ~FracLess(row.delta_ms, Frac(0, 1))
                      /\ ~FracLess(row.cumulative_ms, prev)

C14_Witness ==
    /\ tool = "bench_quant" /\ AdditiveCosts /\ cost.op > 0 /\ cost.spawn > 0
    /\ Len(loc.rows) = NumSteps /\ Exited
    /\ FracLess(loc.rows[1].cumulative_ms, loc.rows[NumSteps].cumulative_ms)


\* the result lines of the queries bench_python has executed, in the order
\* of execution
Executed == SelectSeq(out, LAMBDA ln : ln.t = "result")

\* C15: on success bench_python leaves at --out the header row framework,
\* query, avg_ms, rows followed by exactly one row per executed query, in
\* the order the queries were executed, whatever the file held before.
C15_FileIsHeaderPlusRows ==
    (tool = "bench_python" /\ Exited /\ exit_code = 0) =>
        /\ outfile.exists
        /\ outfile.header = <<"framework", "query", "avg_ms", "rows">>
        /\ Len(outfile.rows) = Len(Executed)
        /\ Len(Executed) = NumPyQueries
        /\ \A k \in DOMAIN outfile.rows :
              /\ Executed[k].name = k
              /\ outfile.rows[k].framework = PyFramework(k)
              /\ outfile.rows[k].query = PyQueryName(k)
              /\ outfile.rows[k].avg_ms.t = "num"
              /\ outfile.rows[k].avg_ms.thousandths = Thousandths(Executed[k].avg_ms)
              /\ outfile.rows[k].rows = Executed[k].rows

C15_Witness ==
    /\ tool = "bench_python" /\ Exited /\ exit_code = 0
    /\ outfile.exists /\ Len(outfile.rows) = NumPyQueries
    /\ outfile.rows[1].query = "mean_by_symbol"
    /\ outfile.rows[NumPyQueries].avg_ms.thousandths > 0


\* load has read every row of the file
Loaded ==
    /\ tool = "print_table" /\ args.paths # <<>>
    /\ pc \in {"load", "exit"}
    /\ loc.fi = Len(args.paths) /\ loc.ri > Len(args.paths[loc.fi].rows)

\* the loaded value v (thousandths of a millisecond) equals avg_ms up to
\* the 3-decimal formatting: |v / 1000 - avg_ms| <= 0.0005
WithinFormatting(v, avg_ms) ==
    LET d == v * avg_ms.den - 1000 * avg_ms.num
    IN  2 * (IF d < 0 THEN -d ELSE d) <= avg_ms.den

\* the last record of recs with the framework and query of recs[k]
IsLastOfPair(recs, k) ==
    \A j \in DOMAIN recs :
        (recs[j].framework = recs[k].framework /\ recs[j].query = recs[k].query) => j <= k

DistinctPairs(recs) == \A k \in DOMAIN recs : IsLastOfPair(recs, k)

\* C16 as claimed: K records written to the tab-separated file and loaded
\* back are K loaded entries, one per record, each with the record's
\* avg_ms up to the 3-decimal formatting.
C16_RoundTrip ==
    (Loaded /\ args.records # <<>>) =>
        /\ Cardinality(DOMAIN loc.data) = Len(args.records)
        /\ \A k \in DOMAIN args.records :
              LET r == args.records[k]
              IN  /\ <<r.query, r.framework>> \in DOMAIN loc.data
                  /\ WithinFormatting(loc.data[<<r.query, r.framework>>], r.avg_ms)

\* C16 as amended: load keeps avg_ms by (query, framework) and does not
\* read the rows column; the loaded pairs are the pairs of the records,
\* each with the avg_ms of the last record of that pair up to the
\* 3-decimal formatting, so K records come back as K entries exactly when
\* their (framework, query) pairs are distinct.
C16_RoundTripByPair ==
    (Loaded /\ args.records # <<>>) =>
        /\ DOMAIN loc.data =
              {<<args.records[k].query, args.records[k].framework>> : k \in DOMAIN args.records}
        /\ \A k \in DOMAIN args.records :
              LET r == args.records[k]
              IN  IsLastOfPair(args.records, k) =>
                      WithinFormatting(loc.data[<<r.query, r.framework>>], r.avg_ms)
        /\ DistinctPairs(args.records) <=>
              Cardinality(DOMAIN loc.data) = Len(args.records)

C16_Witness ==
    /\ Loaded /\ Len(args.records) = 2 /\ DistinctPairs(args.records)
    /\ args.records[1].avg_ms = Frac(2, 3)
    /\ loc.data[<<args.records[1].query, args.records[1].framework>>] = 667
    /\ Cardinality(DOMAIN loc.data) = 2


\* the result of loading the rows in order: every row stored
RECURSIVE LoadAll(_, _)
LoadAll(rows, k) ==
    IF k = 0 THEN <<>>
    ELSE Put(LoadAll(rows, k - 1), rows[k].query, rows[k].framework,
             rows[k].avg_ms.thousandths)

\* the rows of all files, in the order of the paths and then of the rows
RECURSIVE RowsOf(_, _)
RowsOf(paths, k) == IF k = 0 THEN <<>> ELSE RowsOf(paths, k - 1) \o paths[k].rows

AllRows == RowsOf(args.paths, Len(args.paths))

WellFormedRows(rows) == SelectSeq(rows, LAMBDA row : row.avg_ms.t = "num")

\* C17: load never fails because of a malformed data row: a row with a
\* non-numeric avg_ms and a row cut short are skipped, load reads the file
\* to its end, and the result equals the result of loading the well-formed
\* rows alone.
C17_MalformedRowsSkipped ==
    (tool = "print_table" /\ args.paths # <<>>) =>
        /\ Exited => (loc.fi = Len(args.paths) /\ loc.ri > Len(args.paths[loc.fi].rows))
        /\ \A i \in DOMAIN err : err[i].t # "TypeError"
        /\ Loaded =>
              LET wf == WellFormedRows(AllRows)
              IN  loc.data = LoadAll(wf, Len(wf))


\* print_table has run on the loaded data
Printed == Loaded /\ Exited

Range(s) == {s[i] : i \in DOMAIN s}

\* position of a framework in the canonical order
CanonicalIndex(fw) == CHOOSE i \in DOMAIN FRAMEWORK_ORDER : FRAMEWORK_ORDER[i] = fw

InCanonicalOrder(present) ==
    /\ Range(present) \subseteq Range(FRAMEWORK_ORDER)
    /\ \A i, j \in DOMAIN present :
          i < j => CanonicalIndex(present[i]) < CanonicalIndex(present[j])

\* C18 as claimed: the present frameworks are exactly the frameworks of the
\* canonical list observed anywhere in the loaded data, in canonical order.
C18_PresentIsObserved ==
    Printed =>
        /\ InCanonicalOrder(loc.present)
        /\ Range(loc.present) =
              {fw \in Range(FRAMEWORK_ORDER) : \E k \in DOMAIN loc.data : k[2] = fw}

\* C18 as amended: the present frameworks are exactly the frameworks of the
\* canonical list observed for at least one query of the canonical query
\* order, in canonical order; a framework observed only for other queries
\* is dropped like an absent one, and frameworks outside the list are
\* ignored.
C18_PresentIsObservedInCanonicalQuery ==
    Printed =>
        /\ InCanonicalOrder(loc.present)
        /\ Range(loc.present) =
              {fw \in Range(FRAMEWORK_ORDER) :
                  \E k \in DOMAIN loc.data : k[2] = fw /\ k[1] \in Range(QUERY_ORDER)}

C18_Witness ==
    /\ Printed /\ loc.present = <<"ibex", "polars">>
    /\ DOMAIN loc.data = {<<"mean_by_symbol", "ibex">>, <<"ohlc_by_symbol", "polars">>}


\* the lines of the table section print_table has printed
RowLines == SelectSeq(out, LAMBDA ln : ln.t = "row")

\* a negative ratio was collected: math.log raises on it
NegativeRatio ==
    \E fw \in Range(loc.present) \ {"ibex", "ibex+parse"} :
        \E q \in Range(QUERY_ORDER) :
            /\ <<q, "ibex">> \in DOMAIN loc.data /\ loc.data[<<q, "ibex">>] < 0
            /\ <<q, fw>> \in DOMAIN loc.data /\ loc.data[<<q, fw>>] > 0

\* C19: with at least one framework present, print_table prints one line
\* per query of QUERY_ORDER, in that order, with exactly one cell per
\* present framework; a cell is the no-data marker if and only if no avg_ms
\* was loaded for its (query, framework) pair, a measured 0 being printed
\* as a number; such a pair is in no ratio set; and a missing pair raises
\* no error: print_table fails only on a negative ratio.
C19_MissingCellIsNoData ==
    (Printed /\ loc.present # <<>>) =>
        /\ Len(RowLines) = Len(QUERY_ORDER)
        /\ \A i \in DOMAIN RowLines :
              /\ RowLines[i].query = QUERY_ORDER[i]
              /\ Len(RowLines[i].cells) = Len(loc.present)
              /\ \A j \in DOMAIN loc.present :
                    LET pair == <<QUERY_ORDER[i], loc.present[j]>>
                        cell == RowLines[i].cells[j]
                    IN  /\ cell.t = "no data" <=> pair \notin DOMAIN loc.data
                        /\ (pair \in DOMAIN loc.data /\ loc.data[pair] = 0) =>
                              (cell.t = "ms, 2 decimals" /\ cell.digits = 0)
                        /\ (pair \notin DOMAIN loc.data
                            /\ loc.present[j] \in DOMAIN loc.ratio_queries) =>
                              QUERY_ORDER[i] \notin loc.ratio_queries[loc.present[j]]
        /\ exit_code # 0 => NegativeRatio

C19_Witness ==
    /\ Printed /\ exit_code = 0 /\ loc.present = <<"ibex", "polars">>
    /\ <<"ohlc_by_symbol", "polars">> \notin DOMAIN loc.data
    /\ RowLines[2].cells[2].t = "no data"
    /\ RowLines[1].cells[2].t # "no data"
    /\ loc.ratio_queries["polars"] = {"mean_by_symbol"}


\* the aggregate lines printed for the framework fw
AggregateLines(fw) == SelectSeq(out, LAMBDA ln : ln.t = "aggregate" /\ ln.fw = fw)

BothExist(q, fw) == <<q, "ibex">> \in DOMAIN loc.data /\ <<q, fw>> \in DOMAIN loc.data

C21_SummaryCompletes ==
    (Printed /\ loc.present # <<>>) =>
        /\ exit_code = 0
        /\ \A i \in DOMAIN err : err[i].t # "ValueError"



\* the ratios ibex_v / fw_v of the loaded data over the ratio set of fw
DataRatios(fw) ==
    {Reduce(Frac(loc.data[<<q, "ibex">>], loc.data[<<q, fw>>])) : q \in loc.ratio_queries[fw]}

\* the aggregate gm is the number r: gm^root = r^root
IsValue(gm, r) == FracEq(Frac(Pow(r.num, gm.root), Pow(r.den, gm.root)), gm.of)

\* baseline [10, 20, 40] ms and framework [5, 10, 20] ms over three queries
ExampleData == LoadAll(ComparisonRows(<<5000, 10000, 20000>>, 3), 6)

TimerResults == SelectSeq(out, LAMBDA ln : ln.t = "result")

MaxNoise == CHOOSE n \in cost.noise : \A x \in cost.noise : x <= n

\* C23: timer(fn, warmup, iters) with warmup >= 0 and iters >= 1 calls fn
\* exactly warmup + iters times, every warm-up call before the first timed
\* call; the time it divides is that of the iters timed calls alone, and
\* the result returned is that of the last timed call; so when every call
\* takes the fixed delay D (cost.op ticks of a microsecond) avg_ms is
\* 1000 * D whatever warmup and iters are.
C23_TimerCallsAndAverage ==
    (tool = "bench_python" /\ args.iters >= 1) =>
        /\ pc = "py_timed" => loc.w = args.warmup
        /\ pc = "py_warm" => loc.i = 0
        /\ pc \in {"py_warm", "py_timed"} =>
              calls = (loc.q - 1) * (args.warmup + args.iters) + loc.w + loc.i
        /\ \A k \in DOMAIN TimerResults :
              LET ln == TimerResults[k]
              IN  /\ ln.name = k
                  /\ ln.rows = k * (args.warmup + args.iters)
                  /\ ln.avg_ms.den = 1000 * args.iters
                  /\ cost.op * args.iters <= ln.avg_ms.num
                  /\ ln.avg_ms.num <= (cost.op + MaxNoise) * args.iters
                  /\ cost.noise = {0} => FracEq(ln.avg_ms, Frac(cost.op, 1000))
        /\ (Exited /\ exit_code = 0) =>
              calls = NumPyQueries * (args.warmup + args.iters)

C23_Witness ==
    /\ tool = "bench_python" /\ Exited /\ exit_code = 0
    /\ args.warmup = 1 /\ args.iters = 2 /\ cost.op = 1 /\ cost.noise = {0}
    /\ calls = 6
    /\ Len(TimerResults) = 2
    /\ TimerResults[2].avg_ms = Frac(2, 2000)
    /\ TimerResults[2].rows = 6



\* C24: every avg_ms a harness reports is non-negative, whatever the
\* non-negative elapsed times of its runs are.
C24_AvgNonNegative ==
    \A i \in DOMAIN out : out[i].t = "result" => out[i].avg_ms.num >= 0



\* the repeat count bench_operation has chosen for the current query
TfRepeatsChosen == tool = "bench_tf" /\ pc \in {"wait_bench_warm", "wait_tf_bench"}

\* C25: whatever the probe time and the baseline are, the repeat count of
\* bench_operation satisfies 3 <= repeats <= max(3, ceil(1000 *
\* min_seconds)) (min_seconds is kept in ticks of a microsecond, so 1000 *
\* min_seconds is min_seconds / 1000 here); the bench script holds that
\* many repeats and the result line reports that count.
C25_RepeatsBounded ==
    tool = "bench_tf" =>
        /\ TfRepeatsChosen =>
              /\ probe_repeats <= loc.repeats
              /\ loc.repeats <= Max(probe_repeats, Ceil(args.min_seconds, 1000))
              /\ OpCount(child.script) = loc.repeats
        /\ \A i \in DOMAIN out :
              out[i].t = "result" =>
                  /\ probe_repeats <= out[i].iters
                  /\ out[i].iters <= Max(probe_repeats, Ceil(args.min_seconds, 1000))

\* the floor of 1 ms decides the count: a 0.5 ms operation, 9 ms target
C25_Witness ==
    /\ TfRepeatsChosen /\ args.min_seconds = 9000 /\ cost.op = 500
    /\ loc.repeats = 9



\* the positions inside bench_ibex_compute_only
CalibrationPcs ==
    {"wait_warm", "wait_probe", "wait_warm2", "wait_bench", "wait_warm3", "wait_bench2"}

\* bench_ibex_compute_only has returned
QuantReturned == tool = "bench_quant" /\ loc.ibex_stats # NoStats

CorrectionOnce ==
    tool = "bench_quant" =>
        /\ CountRole("warm3") <= 1 /\ CountRole("bench2") <= 1
        /\ CountRole("bench2") <= CountRole("warm3")
        /\ pc \in {"wait_warm3", "wait_bench2"} =>
              (0 < loc.total /\ loc.total < args.min_seconds)
        /\ QuantReturned =>
              /\ CalibrationSpawns \in {4, 6}
              /\ CalibrationSpawns = 6 <=> "bench2" \in RolesSpawned
              /\ loc.ibex_stats.total = timed.elapsed
              /\ loc.ibex_stats.iters = timed.execs
              /\ loc.ibex_stats.avg_ms =
                     Frac(loc.ibex_stats.total, 1000 * loc.ibex_stats.iters)

CorrectionStep ==
    tool = "bench_quant" =>
        /\ (pc = "wait_bench" /\ pc' = "wait_warm3") =>
              /\ loc'.repeats = loc.repeats * Ceil(args.min_seconds, loc'.total)
              /\ Execs(child'.script, IBEX_QUANT_STEPS) = loc'.repeats
        /\ (pc = "wait_bench" /\ loc'.ibex_stats # NoStats) =>
              /\ ~(0 < loc'.ibex_stats.total /\ loc'.ibex_stats.total < args.min_seconds)
              /\ loc'.ibex_stats.iters = loc.repeats
        /\ (pc = "wait_bench2" /\ loc'.ibex_stats # NoStats) =>
              /\ loc'.ibex_stats.iters = loc.repeats
              /\ Execs(child.script, IBEX_QUANT_STEPS) = loc.repeats
        /\ (pc \in CalibrationPcs /\ pc' \in CalibrationPcs) =>
              loc'.repeats >= loc.repeats

\* C26: in bench_ibex_compute_only the second-order correction is applied
\* at most once: if the first full measurement is shorter than min_seconds
\* (and > 0) the repeat count is multiplied by ceil(min_seconds / elapsed)
\* and exactly one more warm-up and one more measurement are run,
\* otherwise none; the repeat count never decreases, a successful
\* calibration spawns exactly 4 or 6 subprocesses, and the returned
\* repeats, total and avg_ms belong to the last measurement, with avg_ms =
\* 1000 * total / repeats and the script holding exactly `repeats` copies.
C26_SecondOrderOnce == [](CorrectionOnce) /\ [][CorrectionStep]_vars

\* a corrected calibration: 4 repeats measured in 8 ticks against a target
\* of 14, then 8 repeats
C26_Witness ==
    /\ QuantReturned /\ args.min_seconds = 14
    /\ CalibrationSpawns = 6 /\ loc.ibex_stats.iters = 8
    /\ timed.execs = 8



\* the positions in AllRows of the well-formed rows of the pair <<q, fw>>
Occurrences(q, fw) ==
    {k \in DOMAIN AllRows : /\ AllRows[k].query = q /\ AllRows[k].framework = fw
                            /\ AllRows[k].avg_ms.t = "num"}

LastOccurrence(q, fw) == CHOOSE k \in Occurrences(q, fw) : \A j \in Occurrences(q, fw) : j <= k

\* C27: when load has read every file, each (framework, query) pair with a
\* well-formed row holds the avg_ms of its last well-formed occurrence, in
\* the order of the paths and then of the rows; a later row of the pair
\* with a non-numeric avg_ms leaves the earlier value in place, and no
\* other pair is stored.
C27_LastOccurrenceWins ==
    Loaded =>
        /\ DOMAIN loc.data =
              {<<AllRows[k].query, AllRows[k].framework>> :
                  k \in {j \in DOMAIN AllRows : AllRows[j].avg_ms.t = "num"}}
        /\ \A pair \in DOMAIN loc.data :
              loc.data[pair] = AllRows[LastOccurrence(pair[1], pair[2])].avg_ms.thousandths

\* two files: the pair is measured in both, then named by a non-numeric row
C27_Witness ==
    /\ Loaded /\ Len(args.paths) = 2
    /\ args.paths[1].rows = <<TsvRow("polars", "mean_by_symbol", Num(-1000), 7)>>
    /\ args.paths[2].rows = <<TsvRow("polars", "mean_by_symbol", Num(2000), 7),
                              TsvRow("polars", "mean_by_symbol", Text, 7)>>
    /\ loc.data[<<"mean_by_symbol", "polars">>] = 2000



\* C28: POLARS_MAX_THREADS = 1 and IBEX_LIBRARY_PATH are set only in the
\* copy of the environment handed to the one subprocess concerned: after
\* any sequence of runs the environment of the harness is the one it was
\* started in, the single-thread polars child alone sees
\* POLARS_MAX_THREADS = 1 and the ibex children alone the plugin path; the
\* multi-thread polars run, the pandas run and the ibex runs see
\* POLARS_MAX_THREADS as the harness inherited it.
C28_EnvironmentSetInCopyOnly ==
    tool = "bench_quant" =>
        /\ loc.environ = fs.environ
        /\ \A i \in DOMAIN spawnLog :
              /\ spawnLog[i].env.POLARS_MAX_THREADS =
                     IF spawnLog[i].fw = "polars-st" THEN "1"
                     ELSE fs.environ.POLARS_MAX_THREADS
              /\ spawnLog[i].env.IBEX_LIBRARY_PATH =
                     IF spawnLog[i].fw = "ibex" THEN "plugin_dir"
                     ELSE fs.environ.IBEX_LIBRARY_PATH

C28_Witness ==
    /\ tool = "bench_quant" /\ Exited /\ exit_code = 0 /\ fs.environ = NoVars
    /\ Len(spawnLog) = 7
    /\ spawnLog[2].fw = "polars-st" /\ spawnLog[2].env.POLARS_MAX_THREADS = "1"
    /\ spawnLog[3].fw = "pandas" /\ spawnLog[3].env.POLARS_MAX_THREADS = "unset"
    /\ spawnLog[4].fw = "ibex" /\ spawnLog[4].env.POLARS_MAX_THREADS = "unset"
    /\ spawnLog[4].env.IBEX_LIBRARY_PATH = "plugin_dir"
    /\ spawnLog[7].env = spawnLog[4].env



\* before the suites have all finished the file is as it was found
FileUntouched ==
    (tool = "bench_python" /\ ~(Exited /\ exit_code = 0)) =>
        /\ outfile \in {NoFile, OldFile}
        /\ \A k \in DOMAIN Executed :
              \A j \in DOMAIN outfile.rows : outfile.rows[j].query # PyQueryName(Executed[k].name)

\* the only step that changes the file is the successful end of main
FileWrittenAtEnd ==
    (tool = "bench_python" /\ outfile' # outfile) =>
        /\ pc' = "exit" /\ exit_code' = 0
        /\ Len(Executed') = NumPyQueries

\* C29: bench_python writes its output file only after every query of every
\* suite has finished: while the suites run, and when a query raises, the
\* file at --out is as it was before (absent, or with its old content), so
\* the rows of the queries that succeeded before the failure are not in it.
C29_FileOnlyAfterAllSuites == [](FileUntouched) /\ [][FileWrittenAtEnd]_vars

\* the first query succeeded, the second raised, the old file is intact
C29_Witness ==
    /\ tool = "bench_python" /\ Exited /\ exit_code = 1
    /\ Len(Executed) = 1 /\ firstFail.role = "fn"
    /\ outfile = OldFile



\* the line benchmark prints
LoopReport == out[1]

LoopSafety ==
    tool = "quant_pandas" =>
        /\ pc = "loop_warm" => calls = 0
        /\ pc = "loop_iter" =>
              /\ loc.clock - loc.t0 < args.min_seconds
              /\ calls = 1 + loc.i
              /\ loc.clock - loc.t0 <= loc.i * (cost.op + MaxNoise)
        /\ (Exited /\ exit_code = 0) =>
              /\ LoopReport.total >= args.min_seconds
              /\ args.min_seconds > 0 => LoopReport.iters >= 1
              /\ calls = 1 + LoopReport.iters
              /\ LoopReport.total <= LoopReport.iters * (cost.op + MaxNoise)
              /\ LoopReport.iters >= 1 =>
                    LoopReport.total - (cost.op + MaxNoise) < args.min_seconds

\* every run of the pipeline advances the clock by at least one tick
ClockAdvances == tool = "quant_pandas" /\ cost.op > 0

====
